---- MODULE Spec2Model ----
(***************************************************************************)
(* A model of the rustflags codec: the EnvStr view over a platform string  *)
(* (src/string.rs), the flag decoders and the tokenizer (src/parse.rs),    *)
(* the renderer (src/render.rs) and the iterator (src/lib.rs).             *)
(*                                                                         *)
(* Text is a sequence of bytes (integers 0..255).  Offsets are 0-based as  *)
(* in the source; Option<T> is the empty sequence (None) or a one-element  *)
(* sequence (Some).                                                        *)
(***************************************************************************)
EXTENDS Integers, Sequences, FiniteSets, TLC

\* ------------------------------------------------------------------------
\* Bounds of the explored inputs
\* ------------------------------------------------------------------------
\* The longest raw byte string given to from_encoded.
MaxLen == 4

\* The longest value of the environment variable given to from_env.
MaxEnv == 2

\* The most elements of a comma list.
MaxList == 3

\* The most characters of a short bundle.
MaxBundle == 3

\* ------------------------------------------------------------------------
\* Bytes and literals
\* ------------------------------------------------------------------------
SEPARATOR == 31

\* The printable ASCII characters the literals of the source use: '+' (43)
\* to 'Z' (90), '_' (95), and 'a' (97) to 'z' (122).
AsciiUpper == "+,-./0123456789:;<=>?@ABCDEFGHIJKLMNOPQRSTUVWXYZ"

AsciiLower == "abcdefghijklmnopqrstuvwxyz"

Ord(c) ==
  IF c = "_" THEN 95
  ELSE IF \E i \in 1..Len(AsciiUpper) : SubSeq(AsciiUpper, i, i) = c
  THEN 42 + (CHOOSE i \in 1..Len(AsciiUpper) : SubSeq(AsciiUpper, i, i) = c)
  ELSE 96 + (CHOOSE i \in 1..Len(AsciiLower) : SubSeq(AsciiLower, i, i) = c)

Bytes(s) == [i \in 1..Len(s) |-> Ord(SubSeq(s, i, i))]

None == <<>>

Some(x) == <<x>>

Min(a, b) == IF a < b THEN a ELSE b

\* ------------------------------------------------------------------------
\* UTF-8 validation (str::from_utf8 as used by string.rs)
\* ------------------------------------------------------------------------
IsCont(b) == b >= 128 /\ b <= 191

\* The ranges the bytes that follow lead byte b must lie in; <<<<-1,-1>>>>
\* for a byte that cannot start a character.
Utf8Tail(b) ==
  IF b < 128 THEN <<>>
  ELSE IF b >= 194 /\ b <= 223 THEN << <<128, 191>> >>
  ELSE IF b = 224 THEN << <<160, 191>>, <<128, 191>> >>
  ELSE IF (b >= 225 /\ b <= 236) \/ b = 238 \/ b = 239
       THEN << <<128, 191>>, <<128, 191>> >>
  ELSE IF b = 237 THEN << <<128, 159>>, <<128, 191>> >>
  ELSE IF b = 240 THEN << <<144, 191>>, <<128, 191>>, <<128, 191>> >>
  ELSE IF b >= 241 /\ b <= 243
       THEN << <<128, 191>>, <<128, 191>>, <<128, 191>> >>
  ELSE IF b = 244 THEN << <<128, 143>>, <<128, 191>>, <<128, 191>> >>
  ELSE << <<-1, -1>> >>

\* Number of bytes after position i (1-based) that lie in the ranges t, up
\* to the first that does not.
TailMatched(s, i, t) ==
  Cardinality({k \in 1..Len(t) :
                 \A j \in 1..k :
                   i + j <= Len(s) /\ s[i + j] >= t[j][1] /\ s[i + j] <= t[j][2]})

\* Number of bytes after position i (1-based) that continue the character
\* started at i correctly.
Utf8Matched(s, i) == TailMatched(s, i, Utf8Tail(s[i]))

\* Width of the valid character starting at position i (1-based), 0 if none.
Utf8Width(s, i) ==
  IF Utf8Matched(s, i) = Len(Utf8Tail(s[i])) THEN 1 + Len(Utf8Tail(s[i])) ELSE 0

RECURSIVE ValidUpToFrom(_, _)
ValidUpToFrom(s, i) ==
  IF i > Len(s) THEN Len(s)
  ELSE IF Utf8Width(s, i) = 0 THEN i - 1
  ELSE ValidUpToFrom(s, i + Utf8Width(s, i))

valid_up_to(s) == ValidUpToFrom(s, 1)

is_utf8(s) == valid_up_to(s) = Len(s)

\* ------------------------------------------------------------------------
\* EnvStr (src/string.rs)
\* ------------------------------------------------------------------------
\* The value standing for a slice whose boundary assertion failed.
Panic == <<-1>>

\* encoded.get(a..b): None when the range does not lie in the buffer (a
\* wrapped subtraction gives a start beyond any buffer, shown here as a < 0).
get(s, a, b) ==
  IF a >= 0 /\ a <= b /\ b <= Len(s) THEN Some(SubSeq(s, a + 1, b)) ELSE None

\* The assertion of Index<Range<usize>>: i is a buffer edge, or a window of
\* at most 4 bytes on one side of i is valid UTF-8.
BoundaryOk(s, i) ==
  \/ i = 0
  \/ i = Len(s)
  \/ \E k \in 1..4 : \E w \in {get(s, i, i + k), get(s, i - k, i)} :
        w # None /\ is_utf8(w[1])

Index(s, start, end) ==
  IF s = Panic THEN Panic
  ELSE IF (\A i \in {start, end} : BoundaryOk(s, i)) /\ start <= end /\ end <= Len(s)
  THEN SubSeq(s, start + 1, end)
  ELSE Panic

IndexFrom(s, start) == Index(s, start, Len(s))

IndexTo(s, end) == Index(s, 0, end)

bytes_starts_with(s, pat) == Len(s) >= Len(pat) /\ SubSeq(s, 1, Len(pat)) = pat

\* find: the first 0-based offset at which the encoding of ch occurs.
find(s, ch) ==
  LET hits == {i \in 0..(Len(s) - 1) : bytes_starts_with(SubSeq(s, i + 1, Len(s)), ch)}
  IN  IF hits = {} THEN None
      ELSE Some(CHOOSE i \in hits : \A j \in hits : i <= j)

starts_with(s, ch) == bytes_starts_with(s, ch)

ends_with(s, ch) == Len(s) >= Len(ch) /\ SubSeq(s, Len(s) - Len(ch) + 1, Len(s)) = ch

\* first_char that takes the first byte for the first character.
first_char_m(s) ==
  LET prefix == SubSeq(s, 1, Min(Len(s), 4))
  IN  IF prefix = <<>> THEN None
      ELSE IF valid_up_to(prefix) = 0 THEN Some([k |-> "Invalid"])
      ELSE Some([k |-> "Valid", ch |-> SubSeq(prefix, 1, 1)])

\* first_char: None on the empty string, else the first character (as its
\* bytes) or Invalid.
first_char(s) ==
  LET prefix == SubSeq(s, 1, Min(Len(s), 4))
  IN  IF prefix = <<>> THEN None
      ELSE IF valid_up_to(prefix) = 0 THEN Some([k |-> "Invalid"])
      ELSE Some([k |-> "Valid", ch |-> SubSeq(prefix, 1, Utf8Width(prefix, 1))])

\* The pair of slices split_once returns; either slice may have panicked.
SplitPair(l, r) ==
  IF l = Panic \/ r = Panic THEN [k |-> "panic"]
  ELSE [k |-> "some", l |-> l, r |-> r]

\* split_once: None, Some pair, or a panic of one of the two slices.
split_once(s, ch) ==
  IF find(s, ch) = None THEN [k |-> "none"]
  ELSE SplitPair(IndexTo(s, find(s, ch)[1]), IndexFrom(s, find(s, ch)[1] + Len(ch)))

to_str(s) == IF is_utf8(s) THEN Some(s) ELSE None

\* ------------------------------------------------------------------------
\* Operations of validated text (&str) used by the decoders
\* ------------------------------------------------------------------------
EQUALS == Bytes("=")

COMMA == Bytes(",")

COLON == Bytes(":")

DASH == Bytes("-")

PLUS == Bytes("+")

QUOTE == <<34>>

str_split_once(s, ch) ==
  LET i == find(s, ch)
  IN  IF i = None THEN [k |-> "none"]
      ELSE [k |-> "some", l |-> SubSeq(s, 1, i[1]),
                          r |-> SubSeq(s, i[1] + Len(ch) + 1, Len(s))]

\* str::split: the pieces between the occurrences of ch, empty ones kept.
RECURSIVE str_split(_, _)
str_split(s, ch) ==
  LET sp == str_split_once(s, ch)
  IN  IF sp.k = "none" THEN <<s>> ELSE <<sp.l>> \o str_split(sp.r, ch)

\* The digits' value kept in 16 bits by wrapping.
RECURSIVE DecValue_m(_)
DecValue_m(digits) ==
  IF digits = <<>> THEN 0
  ELSE (10 * DecValue_m(SubSeq(digits, 1, Len(digits) - 1))
        + (digits[Len(digits)] - 48)) % 65536

\* str::parse::<u16>: an optional '+', then one or more decimal digits
\* whose value fits 16 bits.
RECURSIVE DecValue(_)
DecValue(digits) ==
  IF digits = <<>> THEN 0
  ELSE Min(65536, 10 * DecValue(SubSeq(digits, 1, Len(digits) - 1))
                  + (digits[Len(digits)] - 48))

parse_u16(s) ==
  LET digits == IF Len(s) > 1 /\ s[1] = 43 THEN Tail(s) ELSE s
  IN  IF digits = <<>> \/ \E i \in 1..Len(digits) : digits[i] < 48 \/ digits[i] > 57
      THEN None
      ELSE IF DecValue(digits) > 65535 THEN None
      ELSE Some(DecValue(digits))

\* u16::to_string
RECURSIVE u16_to_string(_)
u16_to_string(n) ==
  IF n < 10 THEN <<48 + n>> ELSE u16_to_string(n \div 10) \o <<48 + (n % 10)>>

\* ------------------------------------------------------------------------
\* Display of the enumerated payloads (src/lib.rs)
\* ------------------------------------------------------------------------
DisplayLibraryKind ==
  [Dependency |-> Bytes("dependency"), Crate |-> Bytes("crate"),
   Native |-> Bytes("native"), Framework |-> Bytes("framework"),
   All |-> Bytes("all")]

DisplayLinkKind ==
  [Static |-> Bytes("static"), Framework |-> Bytes("framework"),
   Dylib |-> Bytes("dylib")]

DisplayLinkModifierPrefix == [Enable |-> Bytes("+"), Disable |-> Bytes("-")]

DisplayLinkModifier ==
  [Bundle |-> Bytes("bundle"), Verbatim |-> Bytes("verbatim"),
   WholeArchive |-> Bytes("whole-archive"), AsNeeded |-> Bytes("as-needed")]

DisplayCrateType ==
  [Bin |-> Bytes("bin"), Lib |-> Bytes("lib"), Rlib |-> Bytes("rlib"),
   Dylib |-> Bytes("dylib"), Cdylib |-> Bytes("Cdylib"),
   Staticlib |-> Bytes("staticlib"), ProcMacro |-> Bytes("proc-macro")]

DisplayEmit ==
  [Asm |-> Bytes("asm"), LlvmBc |-> Bytes("llvm-bc"), LlvmIr |-> Bytes("llvm-ir"),
   Obj |-> Bytes("obj"), Metadata |-> Bytes("metadata"), Link |-> Bytes("link"),
   DepInfo |-> Bytes("dep-info"), Mir |-> Bytes("mir")]

DisplayLintLevel ==
  [Allow |-> Bytes("allow"), Warn |-> Bytes("warn"), Deny |-> Bytes("deny"),
   Forbid |-> Bytes("forbid")]

DisplayErrorFormat ==
  [Human |-> Bytes("human"), Json |-> Bytes("json"), Short |-> Bytes("short")]

DisplayColor ==
  [Auto |-> Bytes("auto"), Always |-> Bytes("always"), Never |-> Bytes("never")]

LinkKindDefault == "Dylib"

\* ------------------------------------------------------------------------
\* The decoders (src/parse.rs, mod opt).  A decoder returns [k |-> "none"],
\* [k |-> "some", flag |-> f, rem |-> n] (rem is the remaining length a
\* repeatable decoder reports, 0 for the others), or [k |-> "panic"] when
\* a slice it takes fails the boundary assertion.
\* ------------------------------------------------------------------------
NoFlag == [k |-> "none"]

Panicked == [k |-> "panic"]

Decoded(flag) == [k |-> "some", flag |-> flag, rem |-> 0]

DecodedRem(flag, rem) == [k |-> "some", flag |-> flag, rem |-> rem]

\* The vocabulary of a match on text: the value whose spelling is s.
Match(table, s) ==
  IF \E v \in DOMAIN table : table[v] = s
  THEN Some(CHOOSE v \in DOMAIN table : table[v] = s)
  ELSE None

\* cfg that only looks at the two ends of the value for its quotes.
cfg_m(arg) ==
  IF to_str(arg) = None THEN NoFlag
  ELSE LET sp == str_split_once(arg, EQUALS)
       IN  IF sp.k = "none"
           THEN Decoded([tag |-> "Cfg", name |-> arg, value |-> None])
           ELSE LET value == sp.r
                    len == Len(value)
                IN  IF /\ len >= 2
                       /\ starts_with(value, QUOTE)
                       /\ ends_with(value, QUOTE)
                    THEN Decoded([tag |-> "Cfg", name |-> sp.l,
                                  value |-> Some(SubSeq(value, 2, len - 1))])
                    ELSE NoFlag

cfg(arg) ==
  IF to_str(arg) = None THEN NoFlag
  ELSE LET sp == str_split_once(arg, EQUALS)
       IN  IF sp.k = "none"
           THEN Decoded([tag |-> "Cfg", name |-> arg, value |-> None])
           ELSE LET value == sp.r
                    len == Len(value)
                IN  IF /\ len >= 2
                       /\ starts_with(value, QUOTE)
                       /\ find(SubSeq(value, 2, len), QUOTE) = Some(len - 2)
                    THEN Decoded([tag |-> "Cfg", name |-> sp.l,
                                  value |-> Some(SubSeq(value, 2, len - 1))])
                    ELSE NoFlag

LibraryKindWords ==
  [Dependency |-> Bytes("dependency"), Crate |-> Bytes("crate"),
   Native |-> Bytes("native"), Framework |-> Bytes("framework"),
   All |-> Bytes("all")]

library_search_path(arg) ==
  LET sp == split_once(arg, EQUALS)
  IN  IF sp.k = "panic" THEN Panicked
      ELSE IF sp.k = "none"
      THEN Decoded([tag |-> "LibrarySearchPath", kind |-> "All", path |-> arg])
      ELSE IF to_str(sp.l) = None THEN NoFlag
      ELSE LET kind == Match(LibraryKindWords, sp.l)
           IN  IF kind = None THEN NoFlag
               ELSE Decoded([tag |-> "LibrarySearchPath", kind |-> kind[1],
                             path |-> sp.r])

LinkKindWords ==
  [Static |-> Bytes("static"), Framework |-> Bytes("framework"),
   Dylib |-> Bytes("dylib")]

LinkModifierWords ==
  [Bundle |-> Bytes("bundle"), Verbatim |-> Bytes("verbatim"),
   WholeArchive |-> Bytes("whole-archive"), AsNeeded |-> Bytes("as-needed")]

\* The loop over the modifiers that stops at the first one it drops.
RECURSIVE link_modifiers_m(_)
link_modifiers_m(pieces) ==
  IF pieces = <<>> THEN <<>>
  ELSE LET modifier == Head(pieces)
           prefix == IF starts_with(modifier, PLUS) THEN Some("Enable")
                     ELSE IF starts_with(modifier, DASH) THEN Some("Disable")
                     ELSE None
           name == IF prefix = None THEN None
                   ELSE Match(LinkModifierWords, Tail(modifier))
       IN  IF prefix = None \/ name = None
           THEN <<>>
           ELSE << <<prefix[1], name[1]>> >> \o link_modifiers_m(Tail(pieces))

\* The loop of link over the comma-separated modifiers: a modifier without
\* a '+'/'-' prefix or with an unknown name is passed over.
RECURSIVE link_modifiers(_)
link_modifiers(pieces) ==
  IF pieces = <<>> THEN <<>>
  ELSE LET modifier == Head(pieces)
           prefix == IF starts_with(modifier, PLUS) THEN Some("Enable")
                     ELSE IF starts_with(modifier, DASH) THEN Some("Disable")
                     ELSE None
           name == IF prefix = None THEN None
                   ELSE Match(LinkModifierWords, Tail(modifier))
       IN  IF prefix = None \/ name = None
           THEN link_modifiers(Tail(pieces))
           ELSE << <<prefix[1], name[1]>> >> \o link_modifiers(Tail(pieces))

link(arg) ==
  IF to_str(arg) = None THEN NoFlag
  ELSE LET sp == str_split_once(arg, EQUALS)
           ksp == IF sp.k = "some" THEN str_split_once(sp.l, COLON) ELSE [k |-> "none"]
           modifiers == IF ksp.k = "some" THEN link_modifiers(str_split(ksp.r, COMMA))
                        ELSE <<>>
           kindtext == IF ksp.k = "some" THEN ksp.l ELSE sp.l
           kind == IF sp.k = "some" THEN Match(LinkKindWords, kindtext)
                   ELSE Some("Dylib")
           name == IF sp.k = "some" THEN sp.r ELSE arg
           nsp == str_split_once(name, COLON)
       IN  IF kind = None THEN NoFlag
           ELSE Decoded([tag |-> "Link", kind |-> kind[1], modifiers |-> modifiers,
                         name |-> IF nsp.k = "some" THEN nsp.l ELSE name,
                         rename |-> IF nsp.k = "some" THEN Some(nsp.r) ELSE None])

CrateTypeWords ==
  [Bin |-> Bytes("bin"), Lib |-> Bytes("lib"), Rlib |-> Bytes("rlib"),
   Dylib |-> Bytes("dylib"), Cdylib |-> Bytes("cdylib"),
   Staticlib |-> Bytes("staticlib"), ProcMacro |-> Bytes("proc-macro")]

\* crate_type that reports the length of the whole argument as remaining.
RECURSIVE crate_type_m(_)
crate_type_m(arg) ==
  IF arg = <<>> THEN NoFlag
  ELSE LET sp == split_once(arg, COMMA)
           first == IF sp.k = "some" THEN sp.l ELSE arg
           rest == IF sp.k = "some" THEN sp.r ELSE <<>>
       IN  IF sp.k = "panic" THEN Panicked
           ELSE IF to_str(first) = None THEN crate_type_m(rest)
           ELSE IF Match(CrateTypeWords, first) = None THEN crate_type_m(rest)
           ELSE DecodedRem([tag |-> "CrateType",
                            v |-> Match(CrateTypeWords, first)[1]], Len(arg))

RECURSIVE crate_type(_)
crate_type(arg) ==
  IF arg = <<>> THEN NoFlag
  ELSE LET sp == split_once(arg, COMMA)
           first == IF sp.k = "some" THEN sp.l ELSE arg
           rest == IF sp.k = "some" THEN sp.r ELSE <<>>
       IN  IF sp.k = "panic" THEN Panicked
           ELSE IF to_str(first) = None THEN crate_type(rest)
           ELSE IF Match(CrateTypeWords, first) = None THEN crate_type(rest)
           ELSE DecodedRem([tag |-> "CrateType",
                            v |-> Match(CrateTypeWords, first)[1]], Len(rest))

crate_name(arg) ==
  IF to_str(arg) = None THEN NoFlag ELSE Decoded([tag |-> "CrateName", v |-> arg])

edition(arg) ==
  IF to_str(arg) = None THEN NoFlag
  ELSE IF parse_u16(arg) = None THEN NoFlag
  ELSE Decoded([tag |-> "Edition", v |-> parse_u16(arg)[1]])

EmitWords ==
  [Asm |-> Bytes("asm"), LlvmBc |-> Bytes("llvm-bc"), LlvmIr |-> Bytes("llvm-ir"),
   Obj |-> Bytes("obj"), Metadata |-> Bytes("metadata"), Link |-> Bytes("link"),
   DepInfo |-> Bytes("dep-info"), Mir |-> Bytes("mir")]

\* emit that gives up at the first element it does not recognize.
RECURSIVE emit_m(_)
emit_m(arg) ==
  IF arg = <<>> THEN NoFlag
  ELSE LET sp == split_once(arg, COMMA)
           first == IF sp.k = "some" THEN sp.l ELSE arg
           rest == IF sp.k = "some" THEN sp.r ELSE <<>>
       IN  IF sp.k = "panic" THEN Panicked
           ELSE IF to_str(first) = None THEN NoFlag
           ELSE IF Match(EmitWords, first) = None THEN NoFlag
           ELSE DecodedRem([tag |-> "Emit", v |-> Match(EmitWords, first)[1]],
                           Len(rest))

RECURSIVE emit(_)
emit(arg) ==
  IF arg = <<>> THEN NoFlag
  ELSE LET sp == split_once(arg, COMMA)
           first == IF sp.k = "some" THEN sp.l ELSE arg
           rest == IF sp.k = "some" THEN sp.r ELSE <<>>
       IN  IF sp.k = "panic" THEN Panicked
           ELSE IF to_str(first) = None THEN emit(rest)
           ELSE IF Match(EmitWords, first) = None THEN emit(rest)
           ELSE DecodedRem([tag |-> "Emit", v |-> Match(EmitWords, first)[1]],
                           Len(rest))

\* The decoders that keep the validated text as the payload.
text_flag(tag, arg) ==
  IF to_str(arg) = None THEN NoFlag ELSE Decoded([tag |-> tag, v |-> arg])

print(arg) == text_flag("Print", arg)

out(arg) == Decoded([tag |-> "Out", v |-> arg])

out_dir(arg) == Decoded([tag |-> "OutDir", v |-> arg])

explain(arg) == text_flag("Explain", arg)

target(arg) == text_flag("Target", arg)

allow(arg) == text_flag("Allow", arg)

warn(arg) == text_flag("Warn", arg)

force_warn(arg) == text_flag("ForceWarn", arg)

deny(arg) == text_flag("Deny", arg)

forbid(arg) == text_flag("Forbid", arg)

LintLevelWords ==
  [Allow |-> Bytes("allow"), Warn |-> Bytes("warn"), Deny |-> Bytes("deny"),
   Forbid |-> Bytes("forbid")]

cap_lints(arg) ==
  IF to_str(arg) = None \/ Match(LintLevelWords, arg) = None THEN NoFlag
  ELSE Decoded([tag |-> "CapLints", v |-> Match(LintLevelWords, arg)[1]])

codegen(arg) ==
  IF to_str(arg) = None THEN NoFlag
  ELSE LET sp == str_split_once(arg, EQUALS)
       IN  IF sp.k = "some"
           THEN Decoded([tag |-> "Codegen", opt |-> sp.l, value |-> Some(sp.r)])
           ELSE Decoded([tag |-> "Codegen", opt |-> arg, value |-> None])

extern_(arg) ==
  LET sp == split_once(arg, EQUALS)
      name == IF sp.k = "some" THEN sp.l ELSE arg
  IN  IF sp.k = "panic" THEN Panicked
      ELSE IF to_str(name) = None THEN NoFlag
      ELSE Decoded([tag |-> "Extern", name |-> name,
                    path |-> IF sp.k = "some" THEN Some(sp.r) ELSE None])

extern_location(arg) ==
  LET sp == split_once(arg, EQUALS)
  IN  IF sp.k = "panic" THEN Panicked
      ELSE IF sp.k = "none" THEN NoFlag
      ELSE IF to_str(sp.l) = None THEN NoFlag
      ELSE Decoded([tag |-> "ExternLocation", name |-> sp.l, location |-> sp.r])

sysroot(arg) == Decoded([tag |-> "Sysroot", v |-> arg])

z(arg) == text_flag("Z", arg)

ErrorFormatWords ==
  [Human |-> Bytes("human"), Json |-> Bytes("json"), Short |-> Bytes("short")]

error_format(arg) ==
  IF to_str(arg) = None \/ Match(ErrorFormatWords, arg) = None THEN NoFlag
  ELSE Decoded([tag |-> "ErrorFormat", v |-> Match(ErrorFormatWords, arg)[1]])

json(arg) == text_flag("Json", arg)

ColorWords ==
  [Auto |-> Bytes("auto"), Always |-> Bytes("always"), Never |-> Bytes("never")]

color(arg) ==
  IF to_str(arg) = None \/ Match(ColorWords, arg) = None THEN NoFlag
  ELSE Decoded([tag |-> "Color", v |-> Match(ColorWords, arg)[1]])

remap_path_prefix(arg) ==
  LET sp == split_once(arg, EQUALS)
  IN  IF sp.k = "panic" THEN Panicked
      ELSE IF sp.k = "none" THEN NoFlag
      ELSE Decoded([tag |-> "RemapPathPrefix", from |-> sp.l, to |-> sp.r])

\* ------------------------------------------------------------------------
\* The flag tables (src/parse.rs)
\* ------------------------------------------------------------------------
Niladic(flag) == [k |-> "Flag", flag |-> flag]

Opt(fn) == [k |-> "Opt", fn |-> fn]

Repeated(fn) == [k |-> "Repeated", fn |-> fn]

Unrecognized == [k |-> "Unrecognized"]

Help == [tag |-> "Help"]

Test == [tag |-> "Test"]

Version == [tag |-> "Version"]

Verbose == [tag |-> "Verbose"]

ShortTable ==
  [h |-> Niladic(Help),
   L |-> Opt("library_search_path"),
   l |-> Opt("link"),
   g |-> Niladic([tag |-> "Codegen", opt |-> Bytes("debuginfo"),
                  value |-> Some(Bytes("2"))]),
   O |-> Niladic([tag |-> "Codegen", opt |-> Bytes("opt-level"),
                  value |-> Some(Bytes("2"))]),
   o |-> Opt("out"),
   A |-> Opt("allow"),
   W |-> Opt("warn"),
   D |-> Opt("deny"),
   F |-> Opt("forbid"),
   C |-> Opt("codegen"),
   V |-> Niladic(Version),
   v |-> Niladic(Verbose),
   Z |-> Opt("z")]

ShortKeys == [c \in DOMAIN ShortTable |-> Bytes(c)]

\* The short-flag table with a repeatable decoder behind the letter `o`.
lookup_short_m(ch) ==
  IF ch = Bytes("o") THEN Repeated("emit")
  ELSE IF Match(ShortKeys, ch) = None THEN Unrecognized
  ELSE ShortTable[Match(ShortKeys, ch)[1]]

lookup_short(ch) ==
  IF Match(ShortKeys, ch) = None THEN Unrecognized
  ELSE ShortTable[Match(ShortKeys, ch)[1]]

LongTable ==
  << <<"help", Niladic(Help)>>,
     <<"cfg", Opt("cfg")>>,
     <<"crate-type", Repeated("crate_type")>>,
     <<"crate-name", Opt("crate_name")>>,
     <<"edition", Opt("edition")>>,
     <<"emit", Repeated("emit")>>,
     <<"print", Opt("print")>>,
     <<"out-dir", Opt("out_dir")>>,
     <<"explain", Opt("explain")>>,
     <<"test", Niladic(Test)>>,
     <<"target", Opt("target")>>,
     <<"allow", Opt("allow")>>,
     <<"warn", Opt("warn")>>,
     <<"force-warn", Opt("force_warn")>>,
     <<"deny", Opt("deny")>>,
     <<"forbid", Opt("forbid")>>,
     <<"cap-lints", Opt("cap_lints")>>,
     <<"codegen", Opt("codegen")>>,
     <<"version", Niladic(Version)>>,
     <<"verbose", Niladic(Verbose)>>,
     <<"extern", Opt("extern_")>>,
     <<"extern-location", Opt("extern_location")>>,
     <<"sysroot", Opt("sysroot")>>,
     <<"error-format", Opt("error_format")>>,
     <<"json", Opt("json")>>,
     <<"color", Opt("color")>>,
     <<"remap-path-prefix", Opt("remap_path_prefix")>> >>

LongKeys == [i \in DOMAIN LongTable |-> Bytes(LongTable[i][1])]

lookup_long(name) ==
  IF Match(LongKeys, name) = None THEN Unrecognized
  ELSE LongTable[Match(LongKeys, name)[1]][2]

\* A call through a fn(&EnvStr) -> Option<Flag> pointer.
CallOpt(fn, arg) ==
  CASE fn = "cfg" -> cfg(arg)
    [] fn = "library_search_path" -> library_search_path(arg)
    [] fn = "link" -> link(arg)
    [] fn = "crate_name" -> crate_name(arg)
    [] fn = "edition" -> edition(arg)
    [] fn = "print" -> print(arg)
    [] fn = "out" -> out(arg)
    [] fn = "out_dir" -> out_dir(arg)
    [] fn = "explain" -> explain(arg)
    [] fn = "target" -> target(arg)
    [] fn = "allow" -> allow(arg)
    [] fn = "warn" -> warn(arg)
    [] fn = "force_warn" -> force_warn(arg)
    [] fn = "deny" -> deny(arg)
    [] fn = "forbid" -> forbid(arg)
    [] fn = "cap_lints" -> cap_lints(arg)
    [] fn = "codegen" -> codegen(arg)
    [] fn = "extern_" -> extern_(arg)
    [] fn = "extern_location" -> extern_location(arg)
    [] fn = "sysroot" -> sysroot(arg)
    [] fn = "z" -> z(arg)
    [] fn = "error_format" -> error_format(arg)
    [] fn = "json" -> json(arg)
    [] fn = "color" -> color(arg)
    [] fn = "remap_path_prefix" -> remap_path_prefix(arg)

\* A call through a fn(&EnvStr) -> Option<(Flag, usize)> pointer.
CallRepeated(fn, arg) ==
  CASE fn = "crate_type" -> crate_type(arg)
    [] fn = "emit" -> emit(arg)

\* ------------------------------------------------------------------------
\* The tokenizer (src/parse.rs, parse).  f is the RustFlags record
\* [encoded, pos, repeat, short]; one evaluation of Iteration is one pass
\* through the body of the while loop and tells how the pass ends:
\* "continue", "return" (with the flag), "break", or "panic".
\* ------------------------------------------------------------------------
SEP == <<SEPARATOR>>

Continue(f, skip) ==
  [f |-> f, skip |-> skip, out |-> "continue", flag |-> None, src |-> -1]

\* src is the offset in the buffer of the text the returned flag was made
\* from: the flag's character or token for a niladic flag, the argument
\* slice for a unary decoder, the recognized element for a repeatable one.
Return(f, flag, src) ==
  [f |-> f, skip |-> FALSE, out |-> "return", flag |-> Some(flag), src |-> src]

Break(f) == [f |-> f, skip |-> FALSE, out |-> "break", flag |-> None, src |-> -1]

Fatal(f) == [f |-> f, skip |-> FALSE, out |-> "panic", flag |-> None, src |-> -1]

\* The offset in arg of the element a repeatable decoder recognizes (the
\* bytes of arg it passes over before that element).
RECURSIVE ElementOffset(_, _)
ElementOffset(fn, arg) ==
  LET sp == split_once(arg, COMMA)
      first == IF sp.k = "some" THEN sp.l ELSE arg
      rest == IF sp.k = "some" THEN sp.r ELSE <<>>
      words == IF fn = "emit" THEN EmitWords ELSE CrateTypeWords
  IN  IF to_str(first) # None /\ Match(words, first) # None THEN 0
      ELSE (Len(arg) - Len(rest)) + ElementOffset(fn, rest)

\* The rewind by the remaining length alone.
Rewind_m(f, rem) == rem

\* The rewind that looks for the delimiter before the position reached
\* by moving back, not before the position it moves back from.
Rewind_m2(f, rem) ==
  rem + (IF ends_with(IndexTo(f.encoded, f.pos - rem), SEP) THEN 1 ELSE 0)

\* The rewind that counts the delimiter's width whether or not the cursor
\* passed a delimiter, and once more when it did.
Rewind_m3(f, rem) ==
  rem + 1 + (IF ends_with(IndexTo(f.encoded, f.pos), SEP) THEN 1 ELSE 0)

\* The rewind of the cursor when a repeatable decoder reports rem > 0.
Rewind(f, rem) ==
  rem + (IF ends_with(IndexTo(f.encoded, f.pos), SEP) THEN 1 ELSE 0)

\* The dispatch that gives up the whole call when the decoder returns nothing.
Dispatched_m(f, ctor, at, r, off) ==
  IF r.k = "panic" THEN Fatal(f)
  ELSE IF r.k = "none" THEN Break(f)
  ELSE IF ctor.k = "Opt" THEN Return(f, r.flag, at)
  ELSE IF r.rem = 0 THEN Return(f, r.flag, at + off)
  ELSE IF IndexTo(f.encoded, f.pos) = Panic \/ Rewind(f, r.rem) > f.pos
  THEN Fatal(f)
  ELSE Return([f EXCEPT !.pos = f.pos - Rewind(f, r.rem),
                        !.repeat = Some([fn |-> ctor.fn, len |-> r.rem])],
              r.flag, at + off)

\* What the pass does with r, the decoder's result; off is the offset of
\* the recognized element in the argument of a repeatable decoder.  The
\* subtraction f.pos -= ... is fatal when it would go below zero (overflow
\* check).
Dispatched(f, ctor, at, r, off) ==
  IF r.k = "panic" THEN Fatal(f)
  ELSE IF r.k = "none" THEN Continue(f, FALSE)
  ELSE IF ctor.k = "Opt" THEN Return(f, r.flag, at)
  ELSE IF r.rem = 0 THEN Return(f, r.flag, at + off)
  ELSE IF IndexTo(f.encoded, f.pos) = Panic \/ Rewind(f, r.rem) > f.pos
  THEN Fatal(f)
  ELSE Return([f EXCEPT !.pos = f.pos - Rewind(f, r.rem),
                        !.repeat = Some([fn |-> ctor.fn, len |-> r.rem])],
              r.flag, at + off)

\* match constructor { Opt => ..., Repeated => ... }; arg is the slice of
\* the buffer that starts at offset at.
Dispatch(f, ctor, arg, at) ==
  IF arg = Panic THEN Fatal(f)
  ELSE Dispatched(f, ctor, at,
                  IF ctor.k = "Opt" THEN CallOpt(ctor.fn, arg)
                  ELSE CallRepeated(ctor.fn, arg),
                  IF ctor.k = "Opt" THEN 0 ELSE ElementOffset(ctor.fn, arg))

\* The skip step that stops on the separator instead of after it.
SkipBranch_m(f) ==
  LET rest == IndexFrom(f.encoded, f.pos)
      i == find(rest, SEP)
  IN  IF rest = Panic THEN Fatal(f)
      ELSE IF i # None THEN Continue([f EXCEPT !.pos = f.pos + i[1]], FALSE)
      ELSE Continue([f EXCEPT !.pos = Len(f.encoded)], FALSE)

\* if skip { ... }
SkipBranch(f) ==
  LET rest == IndexFrom(f.encoded, f.pos)
      i == find(rest, SEP)
  IN  IF rest = Panic THEN Fatal(f)
      ELSE IF i # None THEN Continue([f EXCEPT !.pos = f.pos + i[1] + 1], FALSE)
      ELSE Continue([f EXCEPT !.pos = Len(f.encoded)], FALSE)

\* The repeat branch that reads the pending repeat without taking it.
RepeatBranch_m(f) ==
  LET rp == f.repeat[1]
      arg == Index(f.encoded, f.pos, f.pos + rp.len)
  IN  Dispatch([f EXCEPT !.pos = f.pos + rp.len], Repeated(rp.fn), arg, f.pos)

\* if let Some((constructor, len)) = f.repeat.take() { ... }
RepeatBranch(f) ==
  LET rp == f.repeat[1]
      arg == Index(f.encoded, f.pos, f.pos + rp.len)
  IN  Dispatch([f EXCEPT !.repeat = None, !.pos = f.pos + rp.len],
               Repeated(rp.fn), arg, f.pos)

\* The argument of a short flag, read without passing over the separator
\* that ends the flag's own token.
ShortArg_m(f, ctor) ==
  IF f.pos = Len(f.encoded) THEN Break(f)
  ELSE LET r1 == IndexFrom(f.encoded, f.pos)
           i == find(r1, SEP)
       IN  IF r1 = Panic THEN Fatal(f)
           ELSE Dispatch([f EXCEPT !.pos = IF i # None THEN f.pos + i[1] + 1
                                           ELSE Len(f.encoded)],
                         ctor,
                         IF i # None THEN Index(f.encoded, f.pos, f.pos + i[1]) ELSE r1,
                         f.pos)

\* The argument of a short flag, read even when the buffer ends at the
\* flag's letter.
ShortArg_m2(f, ctor) ==
  LET r0 == IndexFrom(f.encoded, f.pos)
      p1 == IF starts_with(r0, SEP) THEN f.pos + 1 ELSE f.pos
      r1 == IndexFrom(f.encoded, p1)
      i == find(r1, SEP)
  IN  IF r0 = Panic \/ r1 = Panic THEN Fatal(f)
      ELSE Dispatch([f EXCEPT !.pos = IF i # None THEN p1 + i[1] + 1
                                      ELSE Len(f.encoded)],
                    ctor,
                    IF i # None THEN Index(f.encoded, p1, p1 + i[1]) ELSE r1,
                    p1)

\* The argument of a short flag: the rest of the token, or the next token.
ShortArg(f, ctor) ==
  IF f.pos = Len(f.encoded) THEN Break(f)
  ELSE LET r0 == IndexFrom(f.encoded, f.pos)
           p1 == IF starts_with(r0, SEP) THEN f.pos + 1 ELSE f.pos
           r1 == IndexFrom(f.encoded, p1)
           i == find(r1, SEP)
       IN  IF r0 = Panic \/ r1 = Panic THEN Fatal(f)
           ELSE Dispatch([f EXCEPT !.pos = IF i # None THEN p1 + i[1] + 1
                                           ELSE Len(f.encoded)],
                         ctor,
                         IF i # None THEN Index(f.encoded, p1, p1 + i[1]) ELSE r1,
                         p1)

\* The unrecognized arm that forgets to leave the bundle.
ShortUnrecognized_m(f) == Continue(f, TRUE)

\* FlagConstructor::Unrecognized => { f.short = false; skip = true; continue; }
ShortUnrecognized(f) == Continue([f EXCEPT !.short = FALSE], TRUE)

\* else if f.short { ... }
ShortBranch(f) ==
  LET rest == IndexFrom(f.encoded, f.pos)
      fc == first_char(rest)
  IN  IF rest = Panic \/ fc = None THEN Fatal(f)
      ELSE LET valid == fc[1].k = "Valid"
               ch == IF valid THEN fc[1].ch ELSE <<0>>
               f1 == IF valid THEN [f EXCEPT !.pos = f.pos + Len(ch)] ELSE f
               ctor == lookup_short(ch)
           IN  IF valid /\ ch = SEP THEN Continue([f1 EXCEPT !.short = FALSE], FALSE)
               ELSE IF ctor.k = "Flag" THEN Return(f1, ctor.flag, f.pos)
               ELSE IF ctor.k = "Unrecognized" THEN ShortUnrecognized(f1)
               ELSE ShortArg([f1 EXCEPT !.short = FALSE], ctor)

\* The next-token argument read without moving the cursor past it.
NextTokenArg_m(f, ctor) ==
  LET rest == IndexFrom(f.encoded, f.pos)
      i == find(rest, SEP)
  IN  IF rest = Panic THEN Fatal(f)
      ELSE Dispatch(f, ctor,
                    IF i # None THEN Index(f.encoded, f.pos, f.pos + i[1]) ELSE rest,
                    f.pos)

\* The argument of a long flag that has no embedded value: the next token.
NextTokenArg(f, ctor) ==
  LET rest == IndexFrom(f.encoded, f.pos)
      i == find(rest, SEP)
  IN  IF rest = Panic THEN Fatal(f)
      ELSE Dispatch([f EXCEPT !.pos = IF i # None THEN f.pos + i[1] + 1
                                      ELSE Len(f.encoded)],
                    ctor,
                    IF i # None THEN Index(f.encoded, f.pos, f.pos + i[1]) ELSE rest,
                    f.pos)

\* The argument of a long flag: the embedded value, or the next token.
LongArg(f, ctor, arg, at) ==
  IF arg # None THEN Dispatch(f, ctor, arg[1], at) ELSE NextTokenArg(f, ctor)

\* The long-flag arm that reads `--` as a flag with an empty name.
LongBranch_m(f) ==
  LET rest == IndexFrom(f.encoded, f.pos + 2)
      i == find(rest, SEP)
      flag == IF i # None THEN Index(f.encoded, f.pos + 2, f.pos + 2 + i[1]) ELSE rest
      f1 == [f EXCEPT !.pos = IF i # None THEN f.pos + i[1] + 3 ELSE Len(f.encoded)]
      sp == split_once(flag, EQUALS)
      name == IF sp.k = "some" THEN sp.l ELSE flag
      arg == IF sp.k = "some" THEN Some(sp.r) ELSE None
      ctor == lookup_long(name)
  IN  IF rest = Panic THEN Fatal(f)
      ELSE IF flag = Panic \/ sp.k = "panic" THEN Fatal(f)
      ELSE IF to_str(name) = None THEN Continue(f1, FALSE)
      ELSE IF ctor.k = "Flag" /\ arg = None THEN Return(f1, ctor.flag, f.pos)
      ELSE IF ctor.k = "Flag" \/ ctor.k = "Unrecognized" THEN Continue(f1, FALSE)
      ELSE LongArg(f1, ctor, arg, f.pos + 2 + Len(name) + 1)

\* The long-flag arm that returns a niladic flag whatever follows its name.
LongBranch_m2(f) ==
  LET rest == IndexFrom(f.encoded, f.pos + 2)
      i == find(rest, SEP)
      flag == IF i # None THEN Index(f.encoded, f.pos + 2, f.pos + 2 + i[1]) ELSE rest
      f1 == [f EXCEPT !.pos = IF i # None THEN f.pos + i[1] + 3 ELSE Len(f.encoded)]
      sp == split_once(flag, EQUALS)
      name == IF sp.k = "some" THEN sp.l ELSE flag
      arg == IF sp.k = "some" THEN Some(sp.r) ELSE None
      ctor == lookup_long(name)
  IN  IF rest = Panic THEN Fatal(f)
      ELSE IF i = Some(0) THEN Continue([f EXCEPT !.pos = Len(f.encoded)], FALSE)
      ELSE IF flag = Panic \/ sp.k = "panic" THEN Fatal(f)
      ELSE IF to_str(name) = None THEN Continue(f1, FALSE)
      ELSE IF ctor.k = "Flag" THEN Return(f1, ctor.flag, f.pos)
      ELSE IF ctor.k = "Flag" \/ ctor.k = "Unrecognized" THEN Continue(f1, FALSE)
      ELSE LongArg(f1, ctor, arg, f.pos + 2 + Len(name) + 1)

\* The long-flag arm that sets skip for an unrecognized name, as the
\* short-flag arm does.
LongBranch_m3(f) ==
  LET rest == IndexFrom(f.encoded, f.pos + 2)
      i == find(rest, SEP)
      flag == IF i # None THEN Index(f.encoded, f.pos + 2, f.pos + 2 + i[1]) ELSE rest
      f1 == [f EXCEPT !.pos = IF i # None THEN f.pos + i[1] + 3 ELSE Len(f.encoded)]
      sp == split_once(flag, EQUALS)
      name == IF sp.k = "some" THEN sp.l ELSE flag
      arg == IF sp.k = "some" THEN Some(sp.r) ELSE None
      ctor == lookup_long(name)
  IN  IF rest = Panic THEN Fatal(f)
      ELSE IF i = Some(0) THEN Continue([f EXCEPT !.pos = Len(f.encoded)], FALSE)
      ELSE IF flag = Panic \/ sp.k = "panic" THEN Fatal(f)
      ELSE IF to_str(name) = None THEN Continue(f1, FALSE)
      ELSE IF ctor.k = "Flag" /\ arg = None THEN Return(f1, ctor.flag, f.pos)
      ELSE IF ctor.k = "Flag" THEN Continue(f1, FALSE)
      ELSE IF ctor.k = "Unrecognized" THEN Continue(f1, TRUE)
      ELSE LongArg(f1, ctor, arg, f.pos + 2 + Len(name) + 1)

\* EnvChar::Valid('-') => { ... }
LongBranch(f) ==
  LET rest == IndexFrom(f.encoded, f.pos + 2)
      i == find(rest, SEP)
      flag == IF i # None THEN Index(f.encoded, f.pos + 2, f.pos + 2 + i[1]) ELSE rest
      f1 == [f EXCEPT !.pos = IF i # None THEN f.pos + i[1] + 3 ELSE Len(f.encoded)]
      sp == split_once(flag, EQUALS)
      name == IF sp.k = "some" THEN sp.l ELSE flag
      arg == IF sp.k = "some" THEN Some(sp.r) ELSE None
      ctor == lookup_long(name)
  IN  IF rest = Panic THEN Fatal(f)
      ELSE IF i = Some(0) THEN Continue([f EXCEPT !.pos = Len(f.encoded)], FALSE)
      ELSE IF flag = Panic \/ sp.k = "panic" THEN Fatal(f)
      ELSE IF to_str(name) = None THEN Continue(f1, FALSE)
      ELSE IF ctor.k = "Flag" /\ arg = None THEN Return(f1, ctor.flag, f.pos)
      ELSE IF ctor.k = "Flag" \/ ctor.k = "Unrecognized" THEN Continue(f1, FALSE)
      ELSE LongArg(f1, ctor, arg, f.pos + 2 + Len(name) + 1)

\* The dash branch that gives up on a lone `-` at the end of the buffer
\* without passing over it.
DashBranch_m(f) ==
  LET after == IndexFrom(f.encoded, f.pos + 1)
      fc == first_char(after)
  IN  IF after = Panic THEN Fatal(f)
      ELSE IF fc = None THEN Break(f)
      ELSE IF fc[1].k = "Valid" /\ fc[1].ch = SEP
      THEN Continue([f EXCEPT !.pos = f.pos + 2], FALSE)
      ELSE IF fc[1].k = "Valid" /\ fc[1].ch = DASH THEN LongBranch(f)
      ELSE Continue([f EXCEPT !.pos = f.pos + 1, !.short = TRUE], FALSE)

\* else if f.encoded[f.pos..].starts_with('-') { ... }
DashBranch(f) ==
  LET after == IndexFrom(f.encoded, f.pos + 1)
      fc == first_char(after)
  IN  IF after = Panic THEN Fatal(f)
      ELSE IF fc = None THEN Continue([f EXCEPT !.pos = f.pos + 1], FALSE)
      ELSE IF fc[1].k = "Valid" /\ fc[1].ch = SEP
      THEN Continue([f EXCEPT !.pos = f.pos + 2], FALSE)
      ELSE IF fc[1].k = "Valid" /\ fc[1].ch = DASH THEN LongBranch(f)
      ELSE Continue([f EXCEPT !.pos = f.pos + 1, !.short = TRUE], FALSE)

\* The else branch that passes over one byte instead of the token.
NonFlagBranch_m(f) ==
  IF IndexFrom(f.encoded, f.pos) = Panic THEN Fatal(f)
  ELSE Continue([f EXCEPT !.pos = f.pos + 1], FALSE)

\* else { skip = true; continue; }; the condition of the else-if before it
\* has sliced the buffer at the cursor.
NonFlagBranch(f) ==
  IF IndexFrom(f.encoded, f.pos) = Panic THEN Fatal(f) ELSE Continue(f, TRUE)

\* Which branch of the loop body a pass takes.
Branch(f, skip) ==
  IF skip THEN "skip"
  ELSE IF f.repeat # None THEN "repeat"
  ELSE IF f.short THEN "short"
  ELSE IF starts_with(IndexFrom(f.encoded, f.pos), DASH) THEN "dash"
  ELSE "nonflag"

Iteration(f, skip) ==
  CASE Branch(f, skip) = "skip" -> SkipBranch(f)
    [] Branch(f, skip) = "repeat" -> RepeatBranch(f)
    [] Branch(f, skip) = "short" -> ShortBranch(f)
    [] Branch(f, skip) = "dash" -> DashBranch(f)
    [] Branch(f, skip) = "nonflag" -> NonFlagBranch(f)

\* parse: the loop run to its end.
RECURSIVE ParseLoop(_, _)
ParseLoop(f, skip) ==
  IF f.pos >= Len(f.encoded) THEN Break(f)
  ELSE LET r == Iteration(f, skip)
       IN  IF r.out = "continue" THEN ParseLoop(r.f, r.skip) ELSE r

parse(f) == ParseLoop(f, FALSE)

\* ------------------------------------------------------------------------
\* The renderer (src/render.rs): the tokens of one flag
\* ------------------------------------------------------------------------
kv(k, v) == k \o EQUALS \o v

RECURSIVE render_modifiers(_, _)
render_modifiers(modifiers, i) ==
  IF i > Len(modifiers) THEN <<>>
  ELSE (IF i = 1 THEN COLON ELSE COMMA)
       \o DisplayLinkModifierPrefix[modifiers[i][1]]
       \o DisplayLinkModifier[modifiers[i][2]]
       \o render_modifiers(modifiers, i + 1)

\* The Link arm that writes the kind only when it is not the default.
render_link_m(flag) ==
  LET kind == IF flag.kind # LinkKindDefault THEN DisplayLinkKind[flag.kind] ELSE <<>>
      prefix == kind \o render_modifiers(flag.modifiers, 1)
  IN  (IF prefix # <<>> THEN prefix \o EQUALS ELSE <<>>)
      \o flag.name
      \o (IF flag.rename # None THEN COLON \o flag.rename[1] ELSE <<>>)

render_link(flag) ==
  LET kind == IF flag.kind # LinkKindDefault \/ flag.modifiers # <<>>
              THEN DisplayLinkKind[flag.kind] ELSE <<>>
      prefix == kind \o render_modifiers(flag.modifiers, 1)
  IN  (IF prefix # <<>> THEN prefix \o EQUALS ELSE <<>>)
      \o flag.name
      \o (IF flag.rename # None THEN COLON \o flag.rename[1] ELSE <<>>)

into_iter(flag) ==
  CASE flag.tag = "Help" -> <<Bytes("--help")>>
    [] flag.tag = "Cfg" ->
         <<Bytes("--cfg"),
           IF flag.value # None
           THEN flag.name \o EQUALS \o QUOTE \o flag.value[1] \o QUOTE
           ELSE flag.name>>
    [] flag.tag = "LibrarySearchPath" ->
         <<Bytes("-L"),
           IF flag.kind = "All" THEN flag.path
           ELSE DisplayLibraryKind[flag.kind] \o EQUALS \o flag.path>>
    [] flag.tag = "Link" -> <<Bytes("-l"), render_link(flag)>>
    [] flag.tag = "CrateType" -> <<Bytes("--crate-type"), DisplayCrateType[flag.v]>>
    [] flag.tag = "CrateName" -> <<Bytes("--crate-name"), flag.v>>
    [] flag.tag = "Edition" -> <<Bytes("--edition"), u16_to_string(flag.v)>>
    [] flag.tag = "Emit" -> <<Bytes("--emit"), DisplayEmit[flag.v]>>
    [] flag.tag = "Print" -> <<Bytes("--print"), flag.v>>
    [] flag.tag = "Out" -> <<Bytes("-o"), flag.v>>
    [] flag.tag = "OutDir" -> <<Bytes("--out-dir"), flag.v>>
    [] flag.tag = "Explain" -> <<Bytes("--explain"), flag.v>>
    [] flag.tag = "Test" -> <<Bytes("--test")>>
    [] flag.tag = "Target" -> <<Bytes("--target"), flag.v>>
    [] flag.tag = "Allow" -> <<Bytes("--allow"), flag.v>>
    [] flag.tag = "Warn" -> <<Bytes("--warn"), flag.v>>
    [] flag.tag = "ForceWarn" -> <<Bytes("--force-warn"), flag.v>>
    [] flag.tag = "Deny" -> <<Bytes("--deny"), flag.v>>
    [] flag.tag = "Forbid" -> <<Bytes("--forbid"), flag.v>>
    [] flag.tag = "CapLints" -> <<Bytes("--cap-lints"), DisplayLintLevel[flag.v]>>
    [] flag.tag = "Codegen" ->
         <<Bytes("-C"),
           IF flag.value # None THEN flag.opt \o EQUALS \o flag.value[1]
           ELSE flag.opt>>
    [] flag.tag = "Version" -> <<Bytes("--version")>>
    [] flag.tag = "Verbose" -> <<Bytes("--verbose")>>
    [] flag.tag = "Extern" ->
         <<Bytes("--extern"),
           IF flag.path # None THEN kv(flag.name, flag.path[1]) ELSE flag.name>>
    [] flag.tag = "ExternLocation" ->
         <<Bytes("--extern-location"), kv(flag.name, flag.location)>>
    [] flag.tag = "Sysroot" -> <<Bytes("--sysroot"), flag.v>>
    [] flag.tag = "Z" -> <<Bytes("-Z"), flag.v>>
    [] flag.tag = "ErrorFormat" ->
         <<Bytes("--error-format"), DisplayErrorFormat[flag.v]>>
    [] flag.tag = "Json" -> <<Bytes("--json"), flag.v>>
    [] flag.tag = "Color" -> <<Bytes("--color"), DisplayColor[flag.v]>>
    [] flag.tag = "RemapPathPrefix" ->
         <<Bytes("--remap-path-prefix"), kv(flag.from, flag.to)>>

\* ------------------------------------------------------------------------
\* Construction and whole-stream decoding (src/lib.rs, tests/test.rs)
\* ------------------------------------------------------------------------
REPLACEMENT == <<239, 191, 189>>

\* OsString::into_string().unwrap_or_else(|s| s.to_string_lossy()): every
\* maximal invalid sequence becomes U+FFFD.
RECURSIVE to_string_lossy(_, _)
to_string_lossy(s, i) ==
  IF i > Len(s) THEN <<>>
  ELSE IF Utf8Width(s, i) > 0
  THEN SubSeq(s, i, i + Utf8Width(s, i) - 1) \o to_string_lossy(s, i + Utf8Width(s, i))
  ELSE REPLACEMENT \o to_string_lossy(s, i + 1 + Utf8Matched(s, i))

\* from_env that falls back to a flag of its own when the variable is unset.
from_env_m(var) ==
  [encoded |-> IF var = None THEN Bytes("-g") ELSE to_string_lossy(var[1], 1),
   pos |-> 0, repeat |-> None, short |-> FALSE]

\* from_env: var is the value of CARGO_ENCODED_RUSTFLAGS, None when unset.
from_env(var) ==
  [encoded |-> to_string_lossy(IF var = None THEN <<>> ELSE var[1], 1),
   pos |-> 0, repeat |-> None, short |-> FALSE]

from_encoded(bytes) ==
  [encoded |-> bytes, pos |-> 0, repeat |-> None, short |-> FALSE]

\* Iterator::collect: the flags of successive next() calls up to the first None.
RECURSIVE collect(_)
collect(f) ==
  LET r == parse(f)
  IN  IF r.out = "return" THEN <<r.flag[1]>> \o collect(r.f) ELSE <<>>

\* [OsString]::join
RECURSIVE join(_, _)
join(tokens, sep) ==
  IF tokens = <<>> THEN <<>>
  ELSE IF Len(tokens) = 1 THEN tokens[1]
  ELSE tokens[1] \o sep \o join(Tail(tokens), sep)

\* The tokens of a sequence of flags, in order (the inner loop of test).
RECURSIVE render_all(_)
render_all(flags) ==
  IF flags = <<>> THEN <<>> ELSE into_iter(Head(flags)) \o render_all(Tail(flags))

re_encoded(flags) == join(render_all(flags), SEP)

\* ------------------------------------------------------------------------
\* The explored inputs
\* ------------------------------------------------------------------------
RECURSIVE Concat(_)
Concat(ss) == IF ss = <<>> THEN <<>> ELSE Head(ss) \o Concat(Tail(ss))

SeqsUpTo(S, n) == UNION {[1..k -> S] : k \in 0..n}

\* Raw bytes: '-', the separator, 'g', 'o', '=', a two-byte character in
\* two halves (0xC3 0xA9), and a byte no UTF-8 text contains.
RawAlphabet == {45, SEPARATOR, 103, 111, 61, 195, 169, 255}

RawBuffers == SeqsUpTo(RawAlphabet, MaxLen)

EnvValues == {None} \cup {Some(b) : b \in SeqsUpTo(RawAlphabet, MaxEnv)}

\* The tokens of assert_flags!, joined by the separator.
Args(tokens) == join([i \in 1..Len(tokens) |-> Bytes(tokens[i])], SEP)

\* The inputs of tests/test.rs.
TestBuffers ==
  { <<>>,
    Args(<<"-h">>), Args(<<"--help">>),
    Args(<<"--cfg=semver_exempt">>),
    Bytes("--cfg=feature=") \o QUOTE \o Bytes("std") \o QUOTE,
    Args(<<"--cfg", "semver_exempt">>),
    Args(<<"--cfg", "feature=">>) \o QUOTE \o Bytes("std") \o QUOTE,
    Args(<<"-L", "PATH">>), Args(<<"-L", "native=PATH">>),
    Args(<<"-l", "NAME">>), Args(<<"-l", "static=NAME">>),
    Args(<<"-l", "static:+bundle,-whole-archive=NAME">>),
    Args(<<"-l", "NAME:RENAME">>),
    Args(<<"--crate-type", "bin">>), Args(<<"--crate-type", "lib,staticlib">>),
    Args(<<"--crate-name", "core">>),
    Args(<<"--edition", "2021">>),
    Args(<<"--emit", "asm">>), Args(<<"--emit", "asm,mir">>),
    Args(<<"--emit", "unrecognized,mir">>),
    Args(<<"--print", "cfg">>),
    Args(<<"-o", "FILENAME">>),
    Args(<<"--out-dir", "DIR">>),
    Args(<<"--explain", "E0282">>),
    Args(<<"--test">>),
    Args(<<"--target", "x86_64-unknown-linux-gnu">>),
    Args(<<"-A", "dead_code">>), Args(<<"--allow", "dead_code">>),
    Args(<<"-W", "dead_code">>), Args(<<"--warn", "dead_code">>),
    Args(<<"--force-warn", "dead_code">>),
    Args(<<"-D", "dead_code">>), Args(<<"--deny", "dead_code">>),
    Args(<<"-F", "dead_code">>), Args(<<"--forbid", "dead_code">>),
    Args(<<"--cap-lints=allow">>),
    Args(<<"-C", "embed-bitcode">>), Args(<<"-C", "debuginfo=2">>),
    Args(<<"-g">>), Args(<<"-O">>),
    Args(<<"-V">>), Args(<<"--version">>),
    Args(<<"-v">>), Args(<<"--verbose">>),
    Args(<<"--extern", "serde">>),
    Args(<<"--extern", "serde=target/debug/deps/libserde.rmeta">>),
    Args(<<"--extern-location", "serde=json:">>) \o <<123>> \o QUOTE
      \o Bytes("target") \o QUOTE \o COLON \o QUOTE
      \o Bytes("//third-party:serde") \o QUOTE \o <<125>>,
    Args(<<"--sysroot", ".rustup/toolchains/nightly">>),
    Args(<<"-Z", "unstable-options">>),
    Args(<<"--error-format=json">>),
    Args(<<"--json", "diagnostic-rendered-ansi">>),
    Args(<<"--color=always">>),
    Args(<<"--remap-path-prefix", "FROM=TO">>),
    Args(<<"-goto">>), Args(<<"-gxvto", "-h">>) }

\* What may follow the token under study: nothing, a separator, or a
\* separator and one more flag.
Tails == {<<>>, SEP, SEP \o Bytes("-h")}

\* Comma lists: `--emit` or `--crate-type`, the list embedded after `=` or
\* in the next token, up to MaxList elements (recognized by one of the two
\* decoders, by none, empty, a two-byte character, not Unicode).
ListHeads ==
  {Bytes("--emit="), Bytes("--emit") \o SEP,
   Bytes("--crate-type="), Bytes("--crate-type") \o SEP}

ListWords == {Bytes("asm"), Bytes("mir"), Bytes("cdylib"), Bytes("zz"), <<>>,
              <<195, 169>>, <<255>>}

Lists == {join(ws, COMMA) : ws \in SeqsUpTo(ListWords, MaxList) \ {<<>>}}

ListBuffers == {h \o l \o t : h \in ListHeads, l \in Lists, t \in Tails}

\* Short bundles: `-` and up to MaxBundle characters (niladic letters,
\* unary letters, an unknown letter, a two-byte character, a byte that is
\* not Unicode), then a tail or a separate argument.
BundleChars == {Bytes("g"), Bytes("h"), Bytes("O"), Bytes("o"), Bytes("C"),
                Bytes("x"), <<195, 169>>, <<255>>}

Bundles == {Concat(cs) : cs \in SeqsUpTo(BundleChars, MaxBundle) \ {<<>>}}

BundleBuffers ==
  {DASH \o b \o t : b \in Bundles, t \in Tails \cup {SEP \o Bytes("to") \o SEP \o Bytes("-v")}}

\* Link flags: `-l`, glued or separate, KIND, modifiers, name and rename.
LinkKinds == {<<>>, Bytes("dylib="), Bytes("static="), Bytes("framework="),
              Bytes("bogus="), Bytes("dylib:+bundle="),
              Bytes("static:+bundle,-whole-archive="),
              Bytes("dylib:zz,-verbatim,bundle,+as-needed="),
              Bytes("static:zz="), Bytes("bogus:+bundle=")}

LinkNames == {Bytes("NAME"), Bytes("NAME:RENAME"), Bytes("a=b"), Bytes("static=x"),
              <<>>}

LinkBuffers ==
  {Bytes("-l") \o g \o k \o n \o t :
     g \in {<<>>, SEP}, k \in LinkKinds, n \in LinkNames, t \in Tails}

\* One flag for every member of every enumerated payload.
EnumBuffers ==
  {Bytes("--crate-type=") \o CrateTypeWords[v] : v \in DOMAIN CrateTypeWords}
  \cup {Bytes("--emit=") \o EmitWords[v] : v \in DOMAIN EmitWords}
  \cup {Bytes("--cap-lints=") \o LintLevelWords[v] : v \in DOMAIN LintLevelWords}
  \cup {Bytes("--error-format=") \o ErrorFormatWords[v] : v \in DOMAIN ErrorFormatWords}
  \cup {Bytes("--color=") \o ColorWords[v] : v \in DOMAIN ColorWords}
  \cup {Bytes("-L") \o LibraryKindWords[v] \o Bytes("=PATH") : v \in DOMAIN LibraryKindWords}
  \cup {Bytes("-L") \o Bytes("all=") \o p : p \in {Bytes("a=b"), Bytes("native=x"), <<255>>}}
  \cup {Bytes("-lstatic:") \o p \o LinkModifierWords[v] \o Bytes("=NAME") :
          p \in {PLUS, DASH}, v \in DOMAIN LinkModifierWords}

\* The `--` token: first or after other tokens (a flag, a non-flag token,
\* a flag that takes it as its argument), followed by nothing, by more
\* flags, or glued to more text.
TerminatorBuffers ==
  {p \o Bytes("--") \o t :
     p \in {<<>>, Bytes("-g") \o SEP, Bytes("x") \o SEP, Bytes("-o") \o SEP,
            Bytes("--emit=asm,mir") \o SEP},
     t \in Tails \cup {SEP \o Bytes("--help") \o SEP \o Bytes("-ofile"),
                       Bytes("=") \o SEP \o Bytes("-h")}}

\* Long flags: every name of the long-flag table, one outside it and one
\* that is not Unicode, the value embedded after `=` or in the next token.
LongNames ==
  {LongKeys[i] : i \in DOMAIN LongKeys} \cup {Bytes("bogus"), Bytes("n") \o <<255>>}

LongValues == {<<>>, Bytes("x"), Bytes("a=b"), Bytes("asm,mir"), Bytes("65535"),
               Bytes("-h"), Bytes("allow"), <<255>>}

LongArgBuffers ==
  {Bytes("--") \o n \o g \o v \o t :
     n \in LongNames, g \in {EQUALS, SEP}, v \in LongValues, t \in Tails}

\* Short flags that take an argument: every unary letter of the short-flag
\* table, the value glued to it or in the next token.
ShortLetters == {ShortKeys[c] : c \in {c \in DOMAIN ShortTable : ShortTable[c].k = "Opt"}}

ShortValues == {<<>>, Bytes("to"), Bytes("-h"), Bytes("="), Bytes("a=b"),
                Bytes("static=x"), Bytes("dead_code"), Bytes("asm,mir"), <<255>>}

ShortArgBuffers ==
  {DASH \o x \o g \o v \o t :
     x \in ShortLetters, g \in {<<>>, SEP}, v \in ShortValues, t \in Tails}

\* `--cfg` arguments: a name, then nothing or `=` and a value quoted well
\* or badly.
CfgNames == {Bytes("a"), <<>>, <<255>>}

CfgValues ==
  {<<>>, EQUALS, EQUALS \o Bytes("b"),
   EQUALS \o QUOTE, EQUALS \o QUOTE \o QUOTE,
   EQUALS \o QUOTE \o Bytes("b") \o QUOTE,
   EQUALS \o QUOTE \o Bytes("b"), EQUALS \o Bytes("b") \o QUOTE,
   EQUALS \o QUOTE \o Bytes("b") \o QUOTE \o Bytes("c") \o QUOTE,
   EQUALS \o QUOTE \o Bytes("b") \o QUOTE \o Bytes("c"),
   EQUALS \o QUOTE \o QUOTE \o QUOTE,
   EQUALS \o QUOTE \o Bytes("b=c") \o QUOTE,
   EQUALS \o Bytes("x=") \o QUOTE \o Bytes("c") \o QUOTE,
   EQUALS \o QUOTE \o <<195, 169>> \o QUOTE,
   EQUALS \o QUOTE \o <<255>> \o QUOTE}

CfgBuffers ==
  {Bytes("--cfg") \o g \o n \o v \o t :
     g \in {EQUALS, SEP}, n \in CfgNames, v \in CfgValues, t \in Tails}

\* Edition arguments around the 16-bit limit, embedded or in the next token.
EditionValues ==
  {Bytes("2021"), Bytes("0"), Bytes("65535"), Bytes("65536"), Bytes("65537"),
   Bytes("131071"), Bytes("99999"), Bytes("00065535"), Bytes("00065536"),
   Bytes("+5"), Bytes("+"), Bytes("++5"), Bytes("-0"), Bytes("-1"),
   Bytes("20a1"), Bytes("2021") \o <<32>>, Bytes("0x10"), <<>>, <<50, 255>>}

EditionBuffers ==
  {Bytes("--edition") \o g \o v \o t :
     g \in {EQUALS, SEP}, v \in EditionValues, t \in Tails}

\* A short bundle, then a comma list: both modes of the tokenizer in one
\* buffer.
ModeBuffers ==
  {DASH \o x \o SEP \o h \o Bytes("bin,asm,cdylib") \o t :
     x \in {Bytes("h"), Bytes("hv"), Bytes("g"), Bytes("x"), Bytes("o")},
     h \in ListHeads, t \in Tails}

\* A long flag as the whole buffer, with no argument after it.
MissingArgBuffers == {Bytes("--") \o n : n \in LongNames}

Buffers ==
  RawBuffers \cup TestBuffers \cup ListBuffers \cup BundleBuffers \cup LinkBuffers
  \cup EnumBuffers \cup TerminatorBuffers \cup LongArgBuffers \cup ShortArgBuffers
  \cup CfgBuffers \cup EditionBuffers \cup ModeBuffers \cup MissingArgBuffers

\* ------------------------------------------------------------------------
\* The iterator as a state machine
\* ------------------------------------------------------------------------
VARIABLES
  encoded, pos, repeat, short,  \* the fields of RustFlags
  skip,                         \* the local of parse
  pc,                           \* "start", "loop", "returned" or "panic"
  ret,                          \* what the last next() returned
  yielded,                      \* the flags returned so far
  entry,                        \* pos when the running call was entered
  src,                          \* offset of the text the last flag was made from
  rendered,                     \* the tokens of the last flag, once rendered
  origin                        \* how the iterator was constructed

vars ==
  <<encoded, pos, repeat, short, skip, pc, ret, yielded, entry, src, rendered, origin>>

F == [encoded |-> encoded, pos |-> pos, repeat |-> repeat, short |-> short]

Constructed(f, from) ==
  /\ encoded = f.encoded
  /\ pos = f.pos
  /\ repeat = f.repeat
  /\ short = f.short
  /\ skip = FALSE
  /\ pc = "start"
  /\ ret = None
  /\ yielded = <<>>
  /\ entry = 0
  /\ src = -1
  /\ rendered = <<>>
  /\ origin = from

InitOn(buffers) ==
  \/ \E var \in EnvValues : Constructed(from_env(var), [via |-> "from_env", var |-> var])
  \/ \E b \in buffers : Constructed(from_encoded(b), [via |-> "from_encoded"])

Init == InitOn(Buffers)

\* Iterator::next is called.
NextCall ==
  /\ pc \in {"start", "returned"}
  /\ pc' = "loop"
  /\ skip' = FALSE
  /\ entry' = pos
  /\ rendered' = <<>>
  /\ UNCHANGED <<encoded, pos, repeat, short, ret, yielded, src, origin>>

\* The loop condition fails: parse returns None.
LoopExit ==
  /\ pc = "loop"
  /\ pos >= Len(encoded)
  /\ pc' = "returned"
  /\ ret' = None
  /\ UNCHANGED <<encoded, pos, repeat, short, skip, yielded, entry, src, rendered, origin>>

\* One pass through the loop body.
Pass(r) ==
  /\ pos' = r.f.pos
  /\ repeat' = r.f.repeat
  /\ short' = r.f.short
  /\ skip' = r.skip
  /\ pc' = CASE r.out = "continue" -> "loop"
             [] r.out = "return" -> "returned"
             [] r.out = "break" -> "returned"
             [] r.out = "panic" -> "panic"
  /\ ret' = IF r.out = "continue" THEN ret ELSE r.flag
  /\ yielded' = IF r.out = "return" THEN Append(yielded, r.flag[1]) ELSE yielded
  /\ src' = IF r.out = "return" THEN r.src ELSE src
  /\ UNCHANGED <<encoded, entry, rendered, origin>>

InLoop(branch) == pc = "loop" /\ pos < Len(encoded) /\ Branch(F, skip) = branch

SkipStep == InLoop("skip") /\ Pass(SkipBranch(F))

RepeatStep == InLoop("repeat") /\ Pass(RepeatBranch(F))

ShortStep == InLoop("short") /\ Pass(ShortBranch(F))

DashStep == InLoop("dash") /\ Pass(DashBranch(F))

NonFlagStep == InLoop("nonflag") /\ Pass(NonFlagBranch(F))

\* The caller given a valued flag as one `name=value` token.
Render_m ==
  /\ pc = "returned"
  /\ ret # None
  /\ rendered = <<>>
  /\ rendered' = IF Len(into_iter(ret[1])) = 2
                 THEN <<kv(into_iter(ret[1])[1], into_iter(ret[1])[2])>>
                 ELSE into_iter(ret[1])
  /\ UNCHANGED <<encoded, pos, repeat, short, skip, pc, ret, yielded, entry, src, origin>>

\* The caller renders the flag it was given (IntoIterator for Flag).
Render ==
  /\ pc = "returned"
  /\ ret # None
  /\ rendered = <<>>
  /\ rendered' = into_iter(ret[1])
  /\ UNCHANGED <<encoded, pos, repeat, short, skip, pc, ret, yielded, entry, src, origin>>

Next ==
  \/ NextCall
  \/ LoopExit
  \/ SkipStep
  \/ RepeatStep
  \/ ShortStep
  \/ DashStep
  \/ NonFlagStep
  \/ Render

Spec == Init /\ [][Next]_vars

\* ------------------------------------------------------------------------
\* Properties
\* ------------------------------------------------------------------------
\* next() has returned None.
Exhausted == pc = "returned" /\ ret = None

\* C1: Stream round-trip.  Once a buffer is decoded to exhaustion, rendering
\* every yielded flag, joining all tokens with the separator and decoding
\* the result yields the same flags in the same order.
C1_StreamRoundTrip ==
  Exhausted => collect(from_encoded(re_encoded(yielded))) = yielded

\* C2: Per-flag round-trip.  Every flag the decoder yields is the one and
\* only flag that decoding its own rendered tokens yields.
C2_PerFlagRoundTrip ==
  \A i \in 1..Len(yielded) :
    collect(from_encoded(join(into_iter(yielded[i]), SEP))) = <<yielded[i]>>

\* C3: Robustness.  No next() call on any buffer fails fatally: no slice
\* fails the boundary assertion or leaves the buffer, first_char is never
\* None in a short bundle, the rewind never goes below zero.
C3_Robustness == pc # "panic"

\* A buffer that starts a short bundle, is not Unicode and has no separator
\* has been decoded to exhaustion.
C3_Witness ==
  /\ Exhausted
  /\ origin.via = "from_encoded"
  /\ Len(encoded) >= 3
  /\ encoded[1] = 45
  /\ ~is_utf8(encoded)
  /\ find(encoded, SEP) = None

\* A pass through the loop body is taken and the loop goes on.
PassContinues == pc = "loop" /\ pos < Len(encoded) /\ pc' = "loop"

\* The step returns a flag to the caller of next().
Yields == Len(yielded') = Len(yielded) + 1

\* C4 as stated: every iteration of the tokenizer loop either returns or
\* strictly advances the cursor, a call that yields a flag leaves the cursor
\* beyond where it was at call entry, and no more flags are yielded than
\* the buffer has bytes.
C4_AsStated ==
  [][/\ PassContinues => pos' > pos
     /\ Yields => pos' > entry
     /\ Len(yielded') <= Len(encoded')]_vars

\* C4: Termination.  Every iteration of the tokenizer loop returns, or
\* strictly advances the cursor, or was entered without the skip flag and
\* only sets it, leaving the cursor in place (so that the next iteration
\* advances); a call that yields a flag leaves the cursor beyond where it
\* was at call entry; no more flags are yielded than the buffer has bytes.
C4_Termination ==
  [][/\ PassContinues => pos' > pos \/ (pos' = pos /\ ~skip /\ skip')
     /\ Yields => pos' > entry
     /\ Len(yielded') <= Len(encoded')]_vars

\* A flag has been yielded from a buffer whose first token is not a flag:
\* the pass over that token has set the skip flag without moving the cursor.
C4_Witness ==
  /\ Exhausted
  /\ Len(yielded) >= 1
  /\ encoded # <<>>
  /\ encoded[1] \notin {45, SEPARATOR}

\* The buffer read as `--emit` or `--crate-type` with its list, embedded
\* after `=` or in the next token, and what follows the list's token.
ListParts ==
  LET sp == str_split_once(encoded, SEP)
      t1 == IF sp.k = "some" THEN sp.l ELSE encoded
      after1 == IF sp.k = "some" THEN sp.r ELSE <<>>
      eq == str_split_once(t1, EQUALS)
      name == IF eq.k = "some" THEN eq.l ELSE t1
      sp2 == str_split_once(after1, SEP)
  IN  [is |-> name \in {Bytes("--emit"), Bytes("--crate-type")}
               /\ (eq.k = "some" \/ sp.k = "some"),
       tag |-> IF name = Bytes("--emit") THEN "Emit" ELSE "CrateType",
       words |-> IF name = Bytes("--emit") THEN EmitWords ELSE CrateTypeWords,
       elements |-> str_split(IF eq.k = "some" THEN eq.r
                              ELSE IF sp2.k = "some" THEN sp2.l ELSE after1, COMMA),
       rest |-> IF eq.k = "some" THEN after1
                ELSE IF sp2.k = "some" THEN sp2.r ELSE <<>>]

\* One flag for every element that is a word of the vocabulary, in order.
RECURSIVE ListFlags(_, _, _)
ListFlags(tag, words, elements) ==
  IF elements = <<>> THEN <<>>
  ELSE (IF Match(words, Head(elements)) = None THEN <<>>
        ELSE <<[tag |-> tag, v |-> Match(words, Head(elements))[1]]>>)
       \o ListFlags(tag, words, Tail(elements))

\* C5: Comma-list semantics.  A buffer that starts with `--emit` or
\* `--crate-type` and a comma list yields one flag for every recognized
\* element of the list, in list order, then exactly the flags of the tokens
\* after the list; unrecognized, empty and non-Unicode elements are
\* dropped wherever they stand.
C5_CommaList ==
  Exhausted /\ ListParts.is =>
    yielded = ListFlags(ListParts.tag, ListParts.words, ListParts.elements)
              \o collect(from_encoded(ListParts.rest))

\* A list of three elements whose middle one is not recognized has given
\* its two flags, and the token after it a third.
C5_Witness ==
  /\ Exhausted
  /\ ListParts.is
  /\ Len(ListParts.elements) = 3
  /\ Match(ListParts.words, ListParts.elements[2]) = None
  /\ Len(yielded) = 3

\* The number of leading bytes of chars that are niladic short flags.
RECURSIVE NiladicPrefix(_)
NiladicPrefix(chars) ==
  IF chars = <<>> \/ lookup_short(<<Head(chars)>>).k # "Flag" THEN 0
  ELSE 1 + NiladicPrefix(Tail(chars))

\* The buffer read as a short bundle `-c1c2...cn` and what follows its token.
BundleParts ==
  LET sp == str_split_once(encoded, SEP)
      t1 == IF sp.k = "some" THEN sp.l ELSE encoded
      chars == IF t1 = <<>> THEN <<>> ELSE Tail(t1)
      n == NiladicPrefix(chars)
  IN  [is |-> Len(t1) >= 2 /\ t1[1] = 45 /\ t1[2] # 45,
       chars |-> chars,
       niladic |-> [i \in 1..n |-> lookup_short(<<chars[i]>>).flag],
       next |-> IF n < Len(chars) THEN Some(chars[n + 1]) ELSE None,
       after |-> SubSeq(chars, n + 2, Len(chars)),
       followed |-> sp.k = "some",
       rest |-> IF sp.k = "some" THEN sp.r ELSE <<>>]

\* The first character after the niladic ones is not in the short-flag table.
BundleAborts ==
  /\ BundleParts.is
  /\ BundleParts.next # None
  /\ lookup_short(BundleParts.next).k = "Unrecognized"

\* C6: Short-bundle abort.  A bundle with a character that is not in the
\* short-flag table yields the flags of the characters before it and then
\* exactly the flags of the tokens after the bundle's token; the pass that
\* reads such a character yields nothing and leaves short-bundle mode.
C6_ShortBundleAbort ==
  /\ [](Exhausted /\ BundleAborts =>
          yielded = BundleParts.niladic \o collect(from_encoded(BundleParts.rest)))
  /\ [][pc = "loop" /\ Branch(F, skip) = "short" /\ skip' =>
          ~short' /\ yielded' = yielded /\ pc' = "loop"]_vars

\* `-gxh` `-h`: a niladic character, an unknown one, a recognized letter
\* after it, and a flag in the next token.
C6_Witness ==
  /\ Exhausted
  /\ BundleAborts
  /\ Len(BundleParts.niladic) >= 1
  /\ BundleParts.after # <<>>
  /\ lookup_short(<<BundleParts.after[1]>>).k # "Unrecognized"
  /\ Len(yielded) = Len(BundleParts.niladic) + 1

\* The first character after the niladic ones is a unary short flag.
BundleTakesArg ==
  /\ BundleParts.is
  /\ BundleParts.next # None
  /\ lookup_short(BundleParts.next).k = "Opt"

\* The flag, if any, that the unary character's decoder makes of arg.
ArgFlags(arg) ==
  LET r == CallOpt(lookup_short(BundleParts.next).fn, arg)
  IN  IF r.k = "some" THEN <<r.flag>> ELSE <<>>

\* The character the short-bundle branch is about to read.
AtChar(k) ==
  /\ pc = "loop"
  /\ pos < Len(encoded)
  /\ Branch(F, skip) = "short"
  /\ lookup_short(<<encoded[pos + 1]>>).k = k

\* The passes of the short-bundle branch: a niladic character returns its
\* flag and stays in the bundle, a unary character and the delimiter leave
\* the bundle, the delimiter without a flag.
BundlePasses ==
  /\ AtChar("Flag") =>
       /\ pc' = "returned"
       /\ yielded' = Append(yielded, lookup_short(<<encoded[pos + 1]>>).flag)
       /\ short'
       /\ pos' = pos + 1
  /\ AtChar("Opt") => ~short'
  /\ pc = "loop" /\ pos < Len(encoded) /\ Branch(F, skip) = "short"
       /\ encoded[pos + 1] = SEPARATOR =>
       ~short' /\ yielded' = yielded /\ pc' = "loop" /\ pos' = pos + 1

\* C7 as stated: the leading niladic characters yield their flags one per
\* call while bundle mode stays on, the first unary character takes all
\* remaining bytes of the token as its argument and ends the bundle, and a
\* delimiter read in bundle mode ends the bundle without a flag.
C7_AsStated ==
  /\ [](Exhausted /\ BundleTakesArg =>
          yielded = BundleParts.niladic \o ArgFlags(BundleParts.after)
                    \o collect(from_encoded(BundleParts.rest)))
  /\ [][BundlePasses]_vars

\* What a bundle with a unary character yields: the argument is the rest
\* of the token, or the whole next token when the token ends with the
\* character; at the end of the buffer the character yields nothing.
BundleExpected ==
  LET sp == str_split_once(BundleParts.rest, SEP)
      token == IF sp.k = "some" THEN sp.l ELSE BundleParts.rest
      beyond == IF sp.k = "some" THEN sp.r ELSE <<>>
  IN  IF BundleParts.after # <<>>
      THEN BundleParts.niladic \o ArgFlags(BundleParts.after)
           \o collect(from_encoded(BundleParts.rest))
      ELSE IF BundleParts.followed
      THEN BundleParts.niladic \o ArgFlags(token) \o collect(from_encoded(beyond))
      ELSE BundleParts.niladic

\* C7: Short-bundle sequencing.  The leading niladic characters yield
\* their flags one per call, in order, while bundle mode stays on; the
\* first unary character ends the bundle and takes as its argument all
\* remaining bytes of the token or, when none remain, the whole next token
\* (nothing is yielded for it when the buffer ends there); a delimiter
\* read in bundle mode ends the bundle without a flag.
C7_Sequencing ==
  /\ [](Exhausted /\ BundleTakesArg => yielded = BundleExpected)
  /\ [](Exhausted /\ BundleParts.is /\ BundleParts.next = None =>
          yielded = BundleParts.niladic \o collect(from_encoded(BundleParts.rest)))
  /\ [][BundlePasses]_vars

\* `-goC` `-h`: a niladic character, a unary one with the rest of the
\* token as its argument, and a flag in the next token.
C7_Witness ==
  /\ Exhausted
  /\ BundleTakesArg
  /\ Len(BundleParts.niladic) >= 1
  /\ BundleParts.after # <<>>
  /\ BundleParts.followed
  /\ Len(yielded) = Len(BundleParts.niladic) + 2

\* NAME[:RENAME]
NameRename(flag) ==
  flag.name \o (IF flag.rename = None THEN <<>> ELSE COLON \o flag.rename[1])

\* MOD,... : each modifier as its sign and its name.
ModifierList(modifiers) ==
  join([i \in 1..Len(modifiers) |->
          DisplayLinkModifierPrefix[modifiers[i][1]]
          \o DisplayLinkModifier[modifiers[i][2]]], COMMA)

\* C8: Default suppression in the renderer.  A rendered Link flag is the
\* two tokens `-l` and: NAME[:RENAME] alone when the kind is dylib and there
\* are no modifiers; KIND:MOD,...=NAME[:RENAME] when there is a modifier,
\* whatever the kind; KIND=NAME[:RENAME] when the kind is not dylib and
\* there are no modifiers.
C8_DefaultSuppression ==
  rendered # <<>> /\ ret[1].tag = "Link" =>
    rendered =
      <<Bytes("-l"),
        IF ret[1].modifiers # <<>>
        THEN DisplayLinkKind[ret[1].kind] \o COLON \o ModifierList(ret[1].modifiers)
             \o EQUALS \o NameRename(ret[1])
        ELSE IF ret[1].kind = "Dylib" THEN NameRename(ret[1])
        ELSE DisplayLinkKind[ret[1].kind] \o EQUALS \o NameRename(ret[1])>>

\* A Link flag of the default kind with two modifiers and a rename has
\* been rendered.
C8_Witness ==
  /\ rendered # <<>>
  /\ ret[1].tag = "Link"
  /\ ret[1].kind = "Dylib"
  /\ Len(ret[1].modifiers) >= 2
  /\ ret[1].rename # None

\* The iterator was made by from_env with the variable unset.
Absent == origin.via = "from_env" /\ origin.var = None

\* C9: Empty input.  An empty buffer yields no flag: every next() call on
\* it returns None.  With the environment variable unset, from_env gives
\* the iterator of the empty buffer.
C9_EmptyInput ==
  /\ encoded = <<>> /\ pc = "returned" => ret = None /\ yielded = <<>>
  /\ encoded = <<>> => pc # "panic"
  /\ Absent => encoded = <<>>
  /\ Absent /\ pc = "start" => pos = 0 /\ repeat = None /\ ~short

\* With the variable unset, next() has been called and has returned.
C9_Witness == Absent /\ pc = "returned"

\* C10: Order preservation.  The offset of the source text a yielded flag
\* was made from (the flag's token or character, its argument, its list
\* element) lies in the buffer and is strictly greater than that of the
\* flag yielded before it, across the rewind of a comma list too.
C10_OrderPreservation ==
  [][Yields => src' > src /\ src' >= 0 /\ src' <= Len(encoded)]_vars

\* Three elements of one list have been yielded, the cursor rewound twice.
C10_Witness ==
  /\ pc = "returned"
  /\ Len(yielded) = 3
  /\ \A i \in 1..3 : yielded[i].tag = "CrateType"
  /\ ret = Some(yielded[3])

\* The scanner is at a token that is exactly `--`.
AtTerminator ==
  /\ pc = "loop"
  /\ Branch(F, skip) = "dash"
  /\ pos + 2 <= Len(encoded)
  /\ encoded[pos + 2] = 45
  /\ (pos + 2 = Len(encoded) \/ encoded[pos + 3] = SEPARATOR)

\* C11: `--` terminator.  The pass that meets a token that is exactly `--`
\* in flag position yields nothing and puts the cursor at the end of the
\* buffer; with the cursor there, the running call and every later one
\* return None and yield nothing.
C11_Terminator ==
  [][/\ AtTerminator =>
          pos' = Len(encoded) /\ yielded' = yielded /\ pc' = "loop"
     /\ pos = Len(encoded) /\ pc = "loop" =>
          pc' = "returned" /\ ret' = None /\ yielded' = yielded /\ pos' = pos
     /\ pos = Len(encoded) /\ pc = "returned" =>
          pos' = pos /\ yielded' = yielded]_vars

\* `-g` `--` `--help` `-ofile` has been decoded to exhaustion and a later
\* call has been made: one flag, none of those after the `--`.
C11_Witness ==
  /\ Exhausted
  /\ encoded = Bytes("-g") \o SEP \o Bytes("--") \o SEP \o Bytes("--help")
                \o SEP \o Bytes("-ofile")
  /\ Len(yielded) = 1
  /\ entry = Len(encoded)

\* The flags of the running call and of all later calls.
Future ==
  IF pc = "loop"
  THEN LET r == ParseLoop(F, skip)
       IN  IF r.out = "return" THEN <<r.flag[1]>> \o collect(r.f) ELSE <<>>
  ELSE collect(F)

\* The buffer from the cursor on; with the skip flag set, from the token
\* after the one the cursor is in.
Remaining ==
  LET rest == SubSeq(encoded, pos + 1, Len(encoded))
      sp == str_split_once(rest, SEP)
  IN  IF ~skip THEN rest ELSE IF sp.k = "some" THEN sp.r ELSE <<>>

\* A pass that reads a flag: a short character other than the delimiter,
\* a `--` spelling, or the next element of a pending list.
ReadsFlag ==
  /\ pc = "loop"
  /\ pos < Len(encoded)
  /\ \/ Branch(F, skip) = "repeat"
     \/ Branch(F, skip) = "short" /\ encoded[pos + 1] # SEPARATOR
     \/ Branch(F, skip) = "dash" /\ pos + 2 <= Len(encoded) /\ encoded[pos + 2] = 45
           /\ ~AtTerminator

\* C12: Failure isolation.  A pass that reads a flag and yields none (the
\* spelling is unrecognized or the decoder returns nothing) does not end
\* the call unless the buffer is used up, and leaves the scanner with no
\* bundle and no list pending; from such a state the flags yielded from
\* then on are those a fresh iterator yields on the remaining buffer.
C12_FailureIsolation ==
  /\ [][ReadsFlag /\ yielded' = yielded =>
          /\ pc' = "loop" \/ (pc' = "returned" /\ pos' = Len(encoded))
          /\ ~short' /\ repeat' = None]_vars
  /\ [](pc = "loop" /\ ~short /\ repeat = None =>
          Future = collect(from_encoded(Remaining)))

\* `--emit` `zz` `-h`, or the like: no element of the list is recognized,
\* and the flag of the token after it has been yielded.
C12_Witness ==
  /\ Exhausted
  /\ ListParts.is
  /\ ListParts.elements = <<Bytes("zz")>>
  /\ Len(yielded) = 1

\* The buffer read as `--N=V` and what follows its token.
LongParts ==
  LET sp == str_split_once(encoded, SEP)
      t1 == IF sp.k = "some" THEN sp.l ELSE encoded
      eq == str_split_once(SubSeq(t1, 3, Len(t1)), EQUALS)
  IN  [is |-> bytes_starts_with(t1, Bytes("--")) /\ eq.k = "some",
       name |-> IF eq.k = "some" THEN eq.l ELSE <<>>,
       value |-> IF eq.k = "some" THEN eq.r ELSE <<>>,
       tail |-> IF sp.k = "some" THEN SEP \o sp.r ELSE <<>>]

\* `--N=V` with N a long flag that takes an argument.
LongTakesValue ==
  LongParts.is /\ lookup_long(LongParts.name).k \in {"Opt", "Repeated"}

\* C13: Long-form argument equivalence.  A buffer `--N=V` R, N a unary or
\* repeatable long flag, yields the flags that `--N`, delimiter, `V` R
\* yields.
C13_LongFormEquivalence ==
  Exhausted /\ LongTakesValue =>
    yielded = collect(from_encoded(Bytes("--") \o LongParts.name \o SEP
                                   \o LongParts.value \o LongParts.tail))

\* `--emit=asm,mir` `-h`, or the like: a list of two elements whose flags
\* and the flag of the next token have been yielded.
C13_Witness ==
  /\ Exhausted
  /\ LongTakesValue
  /\ lookup_long(LongParts.name).k = "Repeated"
  /\ LongParts.tail # <<>>
  /\ Len(yielded) = 3

\* The buffer read as `-XV`, X a unary short letter and V not empty, and
\* what follows its token.
ShortParts ==
  LET sp == str_split_once(encoded, SEP)
      t1 == IF sp.k = "some" THEN sp.l ELSE encoded
  IN  [is |-> /\ Len(t1) >= 3
              /\ t1[1] = 45
              /\ lookup_short(<<t1[2]>>).k = "Opt",
       letter |-> IF Len(t1) >= 3 THEN SubSeq(t1, 2, 2) ELSE <<>>,
       value |-> IF Len(t1) >= 3 THEN SubSeq(t1, 3, Len(t1)) ELSE <<>>,
       tail |-> IF sp.k = "some" THEN SEP \o sp.r ELSE <<>>]

\* C14: Short-form argument equivalence.  A buffer `-XV` R, X a unary
\* short letter and V not empty, yields the flags that `-X`, delimiter,
\* `V` R yields, also when V begins with `-`.
C14_ShortFormEquivalence ==
  Exhausted /\ ShortParts.is =>
    yielded = collect(from_encoded(DASH \o ShortParts.letter \o SEP
                                   \o ShortParts.value \o ShortParts.tail))

\* `-o-h` `-h`, or the like: the value begins with `-`; its flag and the
\* flag of the next token have been yielded.
C14_Witness ==
  /\ Exhausted
  /\ ShortParts.is
  /\ ShortParts.value[1] = 45
  /\ ShortParts.tail # <<>>
  /\ Len(yielded) = 2

\* The buffer read as a `--` token, with or without `=`, and what follows
\* the token.
LongToken ==
  LET sp == str_split_once(encoded, SEP)
      t1 == IF sp.k = "some" THEN sp.l ELSE encoded
      eq == str_split_once(SubSeq(t1, 3, Len(t1)), EQUALS)
  IN  [is |-> bytes_starts_with(t1, Bytes("--")),
       name |-> IF eq.k = "some" THEN eq.l ELSE SubSeq(t1, 3, Len(t1)),
       embedded |-> IF eq.k = "some" THEN Some(eq.r) ELSE None,
       rest |-> IF sp.k = "some" THEN sp.r ELSE <<>>]

\* The token spells a niladic long flag.
LongNiladic == LongToken.is /\ lookup_long(LongToken.name).k = "Flag"

\* C15: Arity mismatch.  A buffer that starts with a niladic long flag
\* yields that flag and then the flags of the following tokens when the
\* token has no `=`; with an embedded value, even an empty one, it yields
\* only the flags of the following tokens, none of which is consumed.
C15_ArityMismatch ==
  Exhausted /\ LongNiladic =>
    yielded = (IF LongToken.embedded = None
               THEN <<lookup_long(LongToken.name).flag>> ELSE <<>>)
              \o collect(from_encoded(LongToken.rest))

\* `--help=` `-h`, or the like: an empty embedded value; only the flag of
\* the next token has been yielded.
C15_Witness ==
  /\ Exhausted
  /\ LongNiladic
  /\ LongToken.embedded = Some(<<>>)
  /\ LongToken.rest # <<>>
  /\ Len(yielded) = 1

\* The first token of the buffer and what follows its delimiter.
FirstToken ==
  LET sp == str_split_once(encoded, SEP)
  IN  [token |-> IF sp.k = "some" THEN sp.l ELSE encoded,
       rest |-> IF sp.k = "some" THEN sp.r ELSE <<>>]

\* The first token does not start with `-`, or is a lone `-`.
NonFlagFirst ==
  /\ encoded # <<>>
  /\ \/ FirstToken.token = DASH
     \/ ~bytes_starts_with(FirstToken.token, DASH)

\* The offset after the first delimiter at or after the cursor, or the end
\* of the buffer.
NextTokenStart ==
  LET sp == str_split_once(SubSeq(encoded, pos + 1, Len(encoded)), SEP)
  IN  IF sp.k = "some" THEN Len(encoded) - Len(sp.r) ELSE Len(encoded)

\* C16: Non-flag tokens.  A buffer whose first token does not start with
\* `-`, or is a lone `-`, yields exactly the flags of the tokens after it.
\* In any flag position, the pass over a token that does not start with
\* `-` yields nothing and sets skip, and the skip pass puts the cursor
\* after the token's delimiter, or at the end of the buffer.
C16_NonFlagTokens ==
  /\ [](Exhausted /\ NonFlagFirst => yielded = collect(from_encoded(FirstToken.rest)))
  /\ [][/\ pc = "loop" /\ pos < Len(encoded) /\ Branch(F, skip) = "nonflag" =>
            pc' = "loop" /\ skip' /\ pos' = pos /\ yielded' = yielded
        /\ pc = "loop" /\ pos < Len(encoded) /\ skip =>
            pc' = "loop" /\ ~skip' /\ pos' = NextTokenStart /\ yielded' = yielded]_vars

\* `-` `-g`, or the like: a lone `-`, then a flag that has been yielded.
C16_Witness ==
  /\ Exhausted
  /\ NonFlagFirst
  /\ FirstToken.token = DASH
  /\ Len(yielded) = 1

\* The buffer read as the long flag named name with its argument, embedded
\* after `=` or in the next token, and what follows the argument's token.
LongWithArg(name) ==
  LET sp2 == str_split_once(FirstToken.rest, SEP)
      separate == LongToken.embedded = None
  IN  [is |-> /\ LongToken.is
              /\ LongToken.name = name
              /\ (~separate \/ Len(encoded) > Len(FirstToken.token)),
       arg |-> IF ~separate THEN LongToken.embedded[1]
               ELSE IF sp2.k = "some" THEN sp2.l ELSE FirstToken.rest,
       rest |-> IF ~separate THEN FirstToken.rest
                ELSE IF sp2.k = "some" THEN sp2.r ELSE <<>>]

\* The flags the config argument stands for: the whole argument as the
\* name when it has no `=`; with one, the text between two double quotes
\* that are the first and the last byte after the first `=` and the only
\* quotes there; none otherwise, and none when the argument is not Unicode.
CfgExpected(arg) ==
  LET eqs == {i \in 1..Len(arg) : arg[i] = 61}
      e == CHOOSE i \in eqs : \A j \in eqs : i <= j
      after == SubSeq(arg, e + 1, Len(arg))
      n == Len(after)
  IN  IF ~is_utf8(arg) THEN <<>>
      ELSE IF eqs = {}
      THEN <<[tag |-> "Cfg", name |-> arg, value |-> None]>>
      ELSE IF /\ n >= 2
              /\ after[1] = 34
              /\ after[n] = 34
              /\ \A i \in 2..(n - 1) : after[i] # 34
      THEN <<[tag |-> "Cfg", name |-> SubSeq(arg, 1, e - 1),
              value |-> Some(SubSeq(after, 2, n - 1))]>>
      ELSE <<>>

\* C17: Config-flag quoting.  `--cfg` with its argument yields Cfg{name,
\* none} when the argument has no `=`, Cfg{name, value} when the text
\* after the first `=` is one pair of double quotes around a value without
\* quotes, and no flag otherwise or when the argument is not Unicode;
\* then the flags of the following tokens.
C17_CfgQuoting ==
  Exhausted /\ LongWithArg(Bytes("cfg")).is =>
    yielded = CfgExpected(LongWithArg(Bytes("cfg")).arg)
              \o collect(from_encoded(LongWithArg(Bytes("cfg")).rest))

\* An argument with a third double quote between the two at the ends has
\* been decoded: no Cfg flag, only the flag of the next token.
C17_Witness ==
  /\ Exhausted
  /\ LongWithArg(Bytes("cfg")).is
  /\ Cardinality({i \in 1..Len(LongWithArg(Bytes("cfg")).arg) :
                     LongWithArg(Bytes("cfg")).arg[i] = 34}) = 3
  /\ LongWithArg(Bytes("cfg")).arg[Len(LongWithArg(Bytes("cfg")).arg)] = 34
  /\ Len(yielded) = 1
  /\ yielded[1].tag = "Help"

\* The buffer read as the short flag letter with its argument, glued or in
\* the next token, and what follows the argument's token.
ShortWithArg(letter) ==
  LET token == FirstToken.token
      sp2 == str_split_once(FirstToken.rest, SEP)
      glued == Len(token) > 2
  IN  [is |-> /\ bytes_starts_with(token, DASH \o letter)
              /\ (glued \/ Len(encoded) > Len(token)),
       arg |-> IF glued THEN SubSeq(token, 3, Len(token))
               ELSE IF sp2.k = "some" THEN sp2.l ELSE FirstToken.rest,
       rest |-> IF glued THEN FirstToken.rest
                ELSE IF sp2.k = "some" THEN sp2.r ELSE <<>>]

\* The position of the first byte b of s, 0 if there is none.
FirstAt(s, b) ==
  IF \E i \in 1..Len(s) : s[i] = b
  THEN CHOOSE i \in 1..Len(s) : s[i] = b /\ \A j \in 1..(i - 1) : s[j] # b
  ELSE 0

\* A modifier as <<sign, name>>, or nothing for one to drop.
ModifierOf(m) ==
  IF m = <<>> \/ m[1] \notin {43, 45} THEN <<>>
  ELSE IF Match(LinkModifierWords, Tail(m)) = None THEN <<>>
  ELSE << <<IF m[1] = 43 THEN "Enable" ELSE "Disable",
            Match(LinkModifierWords, Tail(m))[1]>> >>

\* The flags the link argument stands for.
LinkExpected(arg) ==
  LET e == FirstAt(arg, 61)
      before == SubSeq(arg, 1, e - 1)
      c == FirstAt(before, 58)
      kindtext == IF c = 0 THEN before ELSE SubSeq(before, 1, c - 1)
      pieces == IF c = 0 THEN <<>>
                ELSE str_split(SubSeq(before, c + 1, Len(before)), COMMA)
      kind == IF e = 0 THEN Some("Dylib") ELSE Match(LinkKindWords, kindtext)
      nm == SubSeq(arg, e + 1, Len(arg))
      r == FirstAt(nm, 58)
  IN  IF ~is_utf8(arg) \/ kind = None THEN <<>>
      ELSE <<[tag |-> "Link",
              kind |-> kind[1],
              modifiers |-> IF e = 0 THEN <<>>
                            ELSE Concat([i \in 1..Len(pieces) |-> ModifierOf(pieces[i])]),
              name |-> IF r = 0 THEN nm ELSE SubSeq(nm, 1, r - 1),
              rename |-> IF r = 0 THEN None ELSE Some(SubSeq(nm, r + 1, Len(nm)))]>>

\* C18: Link-flag grammar.  `-l` with its argument yields the Link flag
\* the grammar gives: KIND or KIND:MODS before the first `=`, modifiers
\* without a sign or with an unknown name dropped and the others kept in
\* order, no flag for a KIND outside {static, framework, dylib}, kind
\* dylib and no modifiers without `=`, the name split at its first `:`;
\* then the flags of the following tokens.
C18_LinkGrammar ==
  Exhausted /\ ShortWithArg(Bytes("l")).is =>
    yielded = LinkExpected(ShortWithArg(Bytes("l")).arg)
              \o collect(from_encoded(ShortWithArg(Bytes("l")).rest))

\* Four modifiers of which two are dropped, and a rename: the Link flag
\* has the two others.
C18_Witness ==
  /\ Exhausted
  /\ ShortWithArg(Bytes("l")).is
  /\ Len(yielded) >= 1
  /\ yielded[1].tag = "Link"
  /\ Len(yielded[1].modifiers) = 2
  /\ yielded[1].rename # None
  /\ Cardinality({i \in 1..Len(encoded) : encoded[i] = 44}) = 3

\* The long names of the flags without a value.
NiladicNames ==
  [Help |-> Bytes("--help"), Test |-> Bytes("--test"),
   Version |-> Bytes("--version"), Verbose |-> Bytes("--verbose")]

\* C19: Renderer output shape.  The tokens rendered for a yielded flag are
\* its long name alone for Help, Test, Version and Verbose and exactly two
\* tokens for every other flag, and no token contains the 0x1F delimiter.
C19_RenderShape ==
  rendered # <<>> =>
    /\ IF ret[1].tag \in DOMAIN NiladicNames
       THEN rendered = <<NiladicNames[ret[1].tag]>>
       ELSE Len(rendered) = 2
    /\ \A i \in 1..Len(rendered) : \A j \in 1..Len(rendered[i]) :
         rendered[i][j] # SEPARATOR

\* A valued flag read from a buffer with delimiters has been rendered, after
\* a niladic one was yielded.
C19_Witness ==
  /\ Len(rendered) = 2
  /\ Len(rendered[2]) > 0
  /\ \E i \in 1..Len(encoded) : encoded[i] = SEPARATOR
  /\ \E i \in 1..Len(yielded) : yielded[i].tag \in DOMAIN NiladicNames

\* The integer a decimal numeral denotes, digit by weight.
RECURSIVE Pow10(_)
Pow10(k) == IF k = 0 THEN 1 ELSE 10 * Pow10(k - 1)

RECURSIVE WeightedSum(_, _)
WeightedSum(digits, i) ==
  IF i > Len(digits) THEN 0
  ELSE (digits[i] - 48) * Pow10(Len(digits) - i) + WeightedSum(digits, i + 1)

\* The numeral of the argument: its digits after an optional `+`, or
\* nothing when the argument is not such text.
NumeralOf(arg) ==
  LET body == IF arg # <<>> /\ arg[1] = 43 THEN Tail(arg) ELSE arg
  IN  IF body # <<>> /\ \A i \in 1..Len(body) : body[i] \in 48..57
      THEN Some(body) ELSE None

\* The flags the edition argument stands for.
EditionExpected(arg) ==
  IF NumeralOf(arg) = None THEN <<>>
  ELSE IF WeightedSum(NumeralOf(arg)[1], 1) \notin 0..65535 THEN <<>>
  ELSE <<[tag |-> "Edition", v |-> WeightedSum(NumeralOf(arg)[1], 1)]>>

\* C20: Edition decoding.  `--edition` with its argument yields Edition(n)
\* when the argument is a decimal numeral of an integer n in 0..65535 and
\* no flag when it is not a numeral or denotes more than 65535, never a
\* value wrapped modulo 2^16; then the flags of the following tokens.
C20_EditionDecoding ==
  Exhausted /\ LongWithArg(Bytes("edition")).is =>
    yielded = EditionExpected(LongWithArg(Bytes("edition")).arg)
              \o collect(from_encoded(LongWithArg(Bytes("edition")).rest))

\* A numeral above 65535: the edition flag is dropped and the following
\* flag is yielded.
C20_Witness ==
  /\ Exhausted
  /\ LongWithArg(Bytes("edition")).is
  /\ NumeralOf(LongWithArg(Bytes("edition")).arg) # None
  /\ WeightedSum(NumeralOf(LongWithArg(Bytes("edition")).arg)[1], 1) > 65535
  /\ yielded = <<Help>>

\* The slice a pending repeat will hand to its decoder, and the flags of
\* the recognized elements in it.
RepeatSlice == SubSeq(encoded, pos + 1, Min(Len(encoded), pos + repeat[1].len))

RepeatFlags ==
  IF repeat[1].fn = "emit"
  THEN ListFlags("Emit", EmitWords, str_split(RepeatSlice, COMMA))
  ELSE ListFlags("CrateType", CrateTypeWords, str_split(RepeatSlice, COMMA))

\* C21 as stated: a pending repeat always has a recognized element in its
\* remaining slice, so that resuming it yields a flag.
C21_AsStated ==
  repeat # None =>
    CallRepeated(repeat[1].fn, Index(encoded, pos, pos + repeat[1].len)).k = "some"

\* C21: Repeat calls.  A call that resumes a pending repeat takes the
\* repeat and hands the decoder exactly the stored remaining slice; it
\* returns the flag of the first recognized element of the slice when there
\* is one, and otherwise yields nothing from the slice, leaves no repeat
\* pending and goes on scanning right after the slice.
C21_RepeatResume ==
  [][pc = "loop" /\ repeat # None =>
       IF RepeatFlags # <<>>
       THEN pc' = "returned" /\ yielded' = Append(yielded, RepeatFlags[1])
       ELSE /\ pc' = "loop"
            /\ yielded' = yielded
            /\ repeat' = None
            /\ pos' = pos + repeat[1].len]_vars

\* A repeat is pending on a remaining slice without a recognized element,
\* after the flag before it was yielded.
C21_Witness ==
  /\ pc = "loop"
  /\ repeat # None
  /\ RepeatFlags = <<>>
  /\ yielded # <<>>

\* The text of the element the last yielded flag was decoded from.
LastWord ==
  LET flag == yielded[Len(yielded)]
  IN  IF flag.tag = "Emit" THEN EmitWords[flag.v] ELSE CrateTypeWords[flag.v]

\* C22: Rewind exactness.  While a repeat with remaining length r is
\* pending, the cursor is the offset right after the element just decoded
\* and its comma, and the r bytes from the cursor are inside the buffer,
\* hold no delimiter and end where the argument token ends (at a delimiter
\* or at the end of the buffer).
C22_RewindExactness ==
  repeat # None =>
    /\ repeat[1].len > 0
    /\ pos = src + Len(LastWord) + 1
    /\ SubSeq(encoded, src + 1, pos) = LastWord \o COMMA
    /\ pos + repeat[1].len <= Len(encoded)
    /\ \A i \in (pos + 1)..(pos + repeat[1].len) : encoded[i] # SEPARATOR
    /\ \/ pos + repeat[1].len = Len(encoded)
       \/ encoded[pos + repeat[1].len + 1] = SEPARATOR

\* The second re-entry of a list of three elements is pending, and a
\* delimiter follows the list.
C22_Witness ==
  /\ repeat # None
  /\ Len(yielded) = 2
  /\ pos + repeat[1].len < Len(encoded)

\* The offset after the k-th delimiter at or after the cursor, the end of
\* the buffer when there are fewer.
AfterDelimiter(k) ==
  LET at == {i \in (pos + 1)..Len(encoded) : encoded[i] = SEPARATOR}
  IN  IF Cardinality(at) < k THEN Len(encoded)
      ELSE CHOOSE i \in at : Cardinality({j \in at : j <= i}) = k

\* The cursor of a pass right before a rewind: after the slice of a resumed
\* repeat; otherwise after the flag's token when the argument is embedded
\* in it and after the next token when it is not, past the delimiter that
\* ends it if there is one.
BeforeRewind ==
  IF repeat # None THEN pos + repeat[1].len
  ELSE IF \E i \in (pos + 1)..AfterDelimiter(1) : encoded[i] = 61
  THEN AfterDelimiter(1)
  ELSE AfterDelimiter(2)

\* A pass that returns a flag and leaves a repeat pending.
Rewinds == pc = "loop" /\ pc' = "returned" /\ repeat' # None

\* C23 as stated: the cursor is moved back by r, and by one more exactly
\* when the byte before the position reached by moving back by r is a
\* delimiter.
C23_AsStated ==
  [][Rewinds =>
       pos' = BeforeRewind - repeat'[1].len
              - (IF encoded[BeforeRewind - repeat'[1].len] = SEPARATOR
                 THEN 1 ELSE 0)]_vars

\* C23: Rewind arithmetic.  The cursor is moved back by r, and by one more
\* exactly when the byte before the position it is moved back from is a
\* delimiter.
C23_RewindArithmetic ==
  [][Rewinds =>
       pos' = BeforeRewind - repeat'[1].len
              - (IF encoded[BeforeRewind] = SEPARATOR THEN 1 ELSE 0)]_vars

\* The first element of a list was yielded and the rewind went back over
\* the delimiter after the list.
C23_Witness ==
  /\ pc = "returned"
  /\ repeat # None
  /\ Len(yielded) = 1
  /\ pos + repeat[1].len < Len(encoded)
  /\ encoded[pos + repeat[1].len + 1] = SEPARATOR

\* C24: Mode exclusivity.  Short-flag mode and a pending repeat are never
\* both set; a call entered with a pending repeat takes the repeat branch
\* first; and a repeat becomes pending only in a pass through the long-flag
\* branch or through the repeat branch, never through the short-flag one.
C24_ModeExclusivity ==
  /\ [](~(short /\ repeat # None))
  /\ [](pc = "loop" /\ repeat # None => Branch(F, skip) = "repeat")
  /\ [][repeat' # None /\ repeat' # repeat =>
          /\ pc = "loop"
          /\ ~short
          /\ Branch(F, skip) \in {"dash", "repeat"}
          /\ Branch(F, skip) = "dash" =>
                bytes_starts_with(SubSeq(encoded, pos + 1, Len(encoded)), DASH \o DASH)]_vars

\* A repeat is pending after a short bundle earlier in the buffer gave a
\* flag.
C24_Witness ==
  /\ pc = "returned"
  /\ repeat # None
  /\ ~short
  /\ Len(yielded) >= 2
  /\ yielded[1].tag \in {"Help", "Verbose", "Version", "Codegen"}

\* Where the argument of the pass starts: the slice of a resumed repeat;
\* otherwise the text after the first `=` of the flag's token, or the next
\* token when the flag's token has no `=`.
ArgStart ==
  IF repeat # None THEN pos
  ELSE IF \E i \in (pos + 1)..AfterDelimiter(1) : encoded[i] = 61
  THEN CHOOSE i \in (pos + 1)..AfterDelimiter(1) :
         encoded[i] = 61 /\ \A j \in (pos + 1)..(i - 1) : encoded[j] # 61
  ELSE AfterDelimiter(1)

\* C25: Cursor monotonicity.  No step lets the cursor end below where it
\* was or beyond the end of the buffer; in a pass that rewinds, the cursor
\* first advances to a position within the buffer and then goes back by at
\* least one byte and at most the remaining length plus one, ending after
\* the start of the argument and after the start of the element just
\* decoded.
C25_CursorMonotonicity ==
  /\ [][pos' >= pos /\ pos' <= Len(encoded)]_vars
  /\ [][Rewinds =>
          /\ BeforeRewind >= pos
          /\ BeforeRewind <= Len(encoded)
          /\ pos' < BeforeRewind
          /\ pos' >= BeforeRewind - (repeat'[1].len + 1)
          /\ pos' > ArgStart
          /\ pos' > src']_vars

\* A resumed repeat was rewound again, with the delimiter after the list
\* still ahead of the cursor.
C25_Witness ==
  /\ pc = "returned"
  /\ repeat # None
  /\ Len(yielded) >= 2
  /\ pos > entry
  /\ \E i \in (pos + 1)..Len(encoded) : encoded[i] = SEPARATOR

\* The long flags whose decoder keeps any text as the payload, with the tag
\* of the flag they make.
AnyTextFlags ==
  << <<"crate-name", "CrateName">>, <<"print", "Print">>, <<"out-dir", "OutDir">>,
     <<"explain", "Explain">>, <<"target", "Target">>, <<"allow", "Allow">>,
     <<"warn", "Warn">>, <<"force-warn", "ForceWarn">>, <<"deny", "Deny">>,
     <<"forbid", "Forbid">>, <<"sysroot", "Sysroot">>, <<"json", "Json">> >>

\* The flags a long flag gives for the empty argument: an empty payload
\* where any text is accepted, nothing for the enumerated, numeric, list
\* and key=value grammars.
EmptyArgFlags(name) ==
  IF name = Bytes("cfg") THEN <<[tag |-> "Cfg", name |-> <<>>, value |-> None]>>
  ELSE IF name = Bytes("codegen")
  THEN <<[tag |-> "Codegen", opt |-> <<>>, value |-> None]>>
  ELSE IF name = Bytes("extern")
  THEN <<[tag |-> "Extern", name |-> <<>>, path |-> None]>>
  ELSE IF \E i \in DOMAIN AnyTextFlags : Bytes(AnyTextFlags[i][1]) = name
  THEN <<[tag |-> AnyTextFlags[CHOOSE i \in DOMAIN AnyTextFlags :
                                 Bytes(AnyTextFlags[i][1]) = name][2],
          v |-> <<>>]>>
  ELSE <<>>

\* The pass reads a unary short letter that is the last byte of the buffer.
LastShortLetter ==
  /\ pc = "loop"
  /\ short /\ ~skip /\ repeat = None
  /\ pos = Len(encoded) - 1
  /\ <<encoded[Len(encoded)]>> \in ShortLetters

\* The buffer is one long flag that takes an argument, without `=`, with or
\* without one delimiter after it.
LongFlagAlone ==
  /\ LongToken.is
  /\ LongToken.embedded = None
  /\ lookup_long(LongToken.name).k \in {"Opt", "Repeated"}
  /\ encoded \in {FirstToken.token, FirstToken.token \o SEP}

\* C26: Missing trailing argument.  A unary short letter that is the last
\* byte of the buffer yields no flag and the call signals exhaustion; a
\* unary long flag without `=` that is the last token, with or without one
\* trailing delimiter, has its decoder applied to the empty text, which
\* gives a flag with an empty payload where any text is accepted; `-o`, a
\* delimiter and an empty token yield Out("").
C26_MissingArgument ==
  /\ [][LastShortLetter =>
          /\ pc' = "returned"
          /\ ret' = None
          /\ yielded' = yielded
          /\ pos' = Len(encoded)]_vars
  /\ [](Exhausted /\ LongFlagAlone => yielded = EmptyArgFlags(LongToken.name))
  /\ [](Exhausted /\ FirstToken.token = Bytes("-o") /\ ShortWithArg(Bytes("o")).is
          /\ ShortWithArg(Bytes("o")).arg = <<>> =>
            yielded = <<[tag |-> "Out", v |-> <<>>]>>
                      \o collect(from_encoded(ShortWithArg(Bytes("o")).rest)))

\* `--codegen` alone has given the Codegen flag with an empty option.
C26_Witness ==
  /\ Exhausted
  /\ encoded = Bytes("--codegen")
  /\ yielded = <<[tag |-> "Codegen", opt |-> <<>>, value |-> None]>>

\* Exhaustion was signalled, or a call made after it is about to signal it
\* again.
Fused ==
  /\ pc \in {"loop", "returned"}
  /\ ret = None
  /\ pos = Len(encoded)
  /\ repeat = None

\* C27: Exhaustion is stable.  A call signals exhaustion only with the
\* cursor at the end of the buffer and no repeat pending, and from then on
\* every call signals exhaustion again, yields nothing and leaves the
\* cursor, short-flag mode and the pending repeat as they are.
C27_ExhaustionStable ==
  /\ [](Exhausted => pos = Len(encoded) /\ repeat = None)
  /\ [][Fused =>
          /\ Fused'
          /\ pos' = pos
          /\ short' = short
          /\ repeat' = repeat
          /\ yielded' = yielded]_vars

\* A call made after exhaustion has signalled exhaustion again: it was
\* entered at the end of a buffer that gave no flag.
C27_Witness ==
  /\ Exhausted
  /\ encoded # <<>>
  /\ entry = Len(encoded)
  /\ yielded = <<>>

\* The first token is `--NAME` or `--NAME=VALUE` with a NAME that the
\* long-flag table does not have, and is not the `--` terminator.
LongUnknown ==
  /\ LongToken.is
  /\ FirstToken.token # Bytes("--")
  /\ \A i \in DOMAIN LongTable : Bytes(LongTable[i][1]) # LongToken.name

\* C28: Unrecognized long flags.  A buffer that starts with a long flag
\* whose name is not in the long-flag table, with or without an embedded
\* value, yields nothing for that token and exactly the flags of the tokens
\* after it: the following token is scanned as a token of its own.
C28_UnknownLong ==
  Exhausted /\ LongUnknown => yielded = collect(from_encoded(LongToken.rest))

\* A name that is not Unicode, with an embedded value, was passed over and
\* the `-h` after it was read.
C28_Witness ==
  /\ Exhausted
  /\ LongUnknown
  /\ ~is_utf8(LongToken.name)
  /\ LongToken.embedded # None
  /\ yielded = <<Help>>
====
